---------------------------- MODULE Spec2Model ----------------------------
(***************************************************************************)
(* Terrain analysis lambdas of JoaoCarlinho/nest:                          *)
(*   dem-generator      handler, validation gate, job status               *)
(*   slope-calculator   calculate_slope, classify_slope, statistics        *)
(*   aspect-calculator  calculate_aspect, classify_aspect                  *)
(*                                                                         *)
(* Numbers.  TLC has 32-bit integers only, so the floating-point values of *)
(* the program are fixed-point integers here:                              *)
(*   elevations and cell sizes   whole metres                              *)
(*   slope                       whole percent, rounded down               *)
(*   angles                      units of 2^-20 degree (AngleUnit/degree); *)
(*                               math.atan2 is a fixed-point approximation *)
(*                               that is exact on the axes and diagonals;  *)
(*                               the store into the float32 aspect array   *)
(*                               rounds to float32's own spacing, which at *)
(*                               this resolution the model has exactly     *)
(*   RMSE                        whole metres                              *)
(***************************************************************************)
EXTENDS Integers, Sequences, FiniteSets, TLC

VARIABLES
    \* ---- dem-generator/lambda_function.py: handler ----
    demPc,          \* position of the handler
    runs,           \* invocations started so far
    method,         \* payload['interpolationMethod']
    contours,       \* len(contours) fetched from PostGIS, -1 before the fetch
    rmse,           \* validation_metrics['rmse'], -1 before validate_dem returns
    statusLog,      \* update_job_status calls of this run, in order
    job,            \* the DEMProcessingJob row
    uploadedRun,    \* upload_to_s3 returned in this run
    recordRun,      \* create_dem_record returned in this run
    s3Objects,      \* keys present in the bucket
    demRecords,     \* number of DigitalElevationModel rows
    response,       \* statusCode returned by the run, 0 while running
    exc,            \* the exception caught by the handler's except clause
    earlier,        \* method and statusCode of the runs that returned before this one
    \* ---- dem-generator/validation.py: validate_dem ----
    valPc,          \* position of validate_dem
    dem_array,      \* the DEM read from the GeoTIFF, a sequence of rows
    valContours,    \* the contours argument
    examined,       \* per contour, the vertex indices the loop visited
    contributing,   \* <<contour, vertex>> of every error appended, in order
    errors,         \* the errors list
    metrics,        \* what validate_dem returned or raised
    \* ---- slope-calculator and aspect-calculator ----
    terPc,              \* the next operation of the terrain pipeline
    height, width,      \* RasterYSize, RasterXSize of the DEM
    cell_size_x_m, cell_size_y_m,
    elevation,          \* the DEM raster: elevation[y][x]
    smoothing_enabled,  \* payload.get('smoothingEnabled') of the slope request
    flat_threshold,     \* flat_threshold of the aspect request
    thresholds,         \* thresholds of classify_slope: flat, moderate, steep
    max_buildable_slope,
    slope,              \* the slope raster written by calculate_slope
    slopeInterior,      \* calculate_slope's array after its interior loop
    slopeElevation,     \* the array calculate_slope takes its differences on
    smoothCount,        \* number of gaussian_filter passes over the DEM
    aspect,             \* the aspect raster written by calculate_aspect
    aspectInterior,     \* calculate_aspect's array after its interior loop
    aspectElevation,    \* the array calculate_aspect takes its differences on
    classifiedSlope,    \* the raster written by classify_slope
    slopeStats,         \* the result of calculate_slope_statistics
    classifiedAspect,   \* the raster written by classify_aspect
    aspectStats,        \* the result of calculate_aspect_statistics
    valid_aspects,      \* the list calculate_aspect_statistics collects
    north_facing_mask,  \* the masks built by identify_facing_areas
    south_facing_mask,
    north_geojson,      \* the polygons identify_facing_areas returns
    south_geojson,
    unbuildable_geojson, \* the polygons identify_unbuildable_areas returns
    \* ---- profile-analyzer ----
    profPc,              \* the next operation of the profile workflow
    data,                \* band.ReadAsArray(): data[y][x]
    nodata,              \* band.GetNoDataValue()
    line_coords,         \* lineCoordinates: <<lng, lat>> pairs
    sample_interval,
    max_grade_threshold,
    attempts,            \* the samples sample_dem_along_line went through
    profile_points,      \* the list of ProfilePoint
    gradeCalls,          \* number of calculate_grades calls on profile_points
    profileStats,        \* the result of calculate_profile_statistics
    profExc,             \* the exception that ended the workflow
    profObjects,         \* keys of the profile results present in the bucket
    profileRecords       \* number of ElevationProfile rows

demVars == <<demPc, runs, method, contours, rmse, statusLog, job, uploadedRun,
             recordRun, s3Objects, demRecords, response, exc, earlier>>

inputVars == <<height, width, cell_size_x_m, cell_size_y_m, elevation,
               smoothing_enabled, flat_threshold, thresholds,
               max_buildable_slope>>

slopeVars == <<slope, slopeInterior, slopeElevation, smoothCount>>

aspectVars == <<aspect, aspectInterior, aspectElevation>>

classVars == <<classifiedSlope, slopeStats, classifiedAspect>>

statVars == <<aspectStats, valid_aspects, north_facing_mask, south_facing_mask>>

vecVars == <<north_geojson, south_geojson, unbuildable_geojson>>

terrainVars == <<terPc, inputVars, slopeVars, aspectVars, classVars, statVars,
                 vecVars>>

profVars == <<profPc, data, nodata, line_coords, sample_interval,
              max_grade_threshold, attempts, profile_points, gradeCalls,
              profileStats, profExc, profObjects, profileRecords>>

valVars == <<valPc, dem_array, valContours, examined, contributing, errors,
             metrics>>

vars == <<demVars, terrainVars, profVars, valVars>>

-----------------------------------------------------------------------------
(* Bounds of the model *)

MaxRuns == 2
MaxContours == 2
MaxRmse == 4
MaxVertices == 2
MaxPoints == 3
MaxGradeCalls == 2
ProfileRows == 3
ProfileCols == 4


-----------------------------------------------------------------------------
(* Fixed-point arithmetic *)

Abs(n) == IF n < 0 THEN -n ELSE n
Sign(n) == IF n < 0 THEN -1 ELSE IF n > 0 THEN 1 ELSE 0
Min2(a, b) == IF a <= b THEN a ELSE b
Max2(a, b) == IF a >= b THEN a ELSE b

\* n / d rounded to the nearest integer (d > 0), halves away from zero.
RoundDiv(n, d) == Sign(n) * ((Abs(n) + d \div 2) \div d)

RECURSIVE IsqrtIter(_, _, _)
IsqrtIter(n, lo, hi) ==
    IF hi - lo <= 1 THEN lo
    ELSE LET mid == (lo + hi) \div 2
         IN  IF mid * mid <= n THEN IsqrtIter(n, mid, hi)
             ELSE IsqrtIter(n, lo, mid)

\* floor(sqrt(n)) for 0 <= n < 2^31.
Isqrt(n) == IsqrtIter(n, 0, 46341)

\* Angles: AngleUnit units to the degree.
AngleUnit == 2^20
Deg(n) == n * AngleUnit
HalfDeg(n) == n * (AngleUnit \div 2)

\* atan(p/q) in angle units for 0 <= p <= q, q > 0, by
\*   atan(r) ~ r * (45 + 15.64 * (1 - r)) degrees   (within 0.25 degree),
\* exact at r = 0 and r = 1.  Large operands are first scaled down so that
\* every product stays below 2^31.
AtanUnits(p, q) ==
    IF p = 0 THEN 0
    ELSE LET f  == (p + 44) \div 45
             ps == p \div f
             qs == q \div f
         IN  (Deg(45) * ps) \div qs
               + ((((16401561 * ps) \div qs) * (qs - ps)) \div qs)

\* math.degrees(math.atan2(y, x)) in angle units.  A zero x is the float
\* -0.0 and a zero y the float +0.0, as the callers produce them
\* (x = -dz_dx with dz_dx = +0.0; y = dz_dy = +0.0).
Atan2Deg(y, x) ==
    LET ax  == Abs(x)
        ay  == Abs(y)
        phi == IF ay <= ax THEN AtanUnits(ay, ax)
               ELSE Deg(90) - AtanUnits(ax, ay)
    IN  IF x = 0 /\ y = 0 THEN Deg(180)
        ELSE IF x > 0 THEN Sign(y) * phi
        ELSE IF x = 0 THEN Sign(y) * Deg(90)
        ELSE IF y >= 0 THEN Deg(180) - phi
        ELSE phi - Deg(180)

\* The spacing of float32 values around v, in angle units (1 below 16
\* degrees, where float32 is finer than the model).
Float32Spacing(v) ==
    LET a == Abs(v)
    IN  IF a < Deg(16) THEN 1
        ELSE IF a < Deg(32) THEN 2
        ELSE IF a < Deg(64) THEN 4
        ELSE IF a < Deg(128) THEN 8
        ELSE IF a < Deg(256) THEN 16
        ELSE 32

\* Assignment of a Python float into a numpy float32 array: round to the
\* nearest float32, ties to the even mantissa.
StoreFloat32(v) ==
    LET u    == Float32Spacing(v)
        a    == Abs(v)
        down == a - (a % u)
        r    == a % u
        up   == down + u
        res  == IF 2 * r < u THEN down
                ELSE IF 2 * r > u THEN up
                ELSE IF (down \div u) % 2 = 0 THEN down ELSE up
    IN  Sign(v) * res

\* math.sin and math.cos of an angle in degrees, scaled by TrigUnit.
TrigUnit == 2^15

\* sin(90 degrees * x / TrigUnit) * TrigUnit for 0 <= x <= TrigUnit, by the
\* Taylor polynomial of degree 9 in fixed point.
SinQuadrant(x) ==
    LET x2 == (x * x) \div TrigUnit
        t7 == 153 - (x2 * 5) \div TrigUnit
        t5 == 2611 - (x2 * t7) \div TrigUnit
        t3 == 21167 - (x2 * t5) \div TrigUnit
        t1 == 51472 - (x2 * t3) \div TrigUnit
    IN  (t1 * x) \div TrigUnit

\* An angle of the first quadrant as a fraction of the quadrant.
QuadrantFraction(r) == RoundDiv(r, Deg(90) \div TrigUnit)

\* math.sin(math.radians(a)) for a >= 0 in angle units.  Off the multiples
\* of 180 degrees the sine keeps its sign: it is never rounded to zero.
SinDeg(a) ==
    LET q == (a \div Deg(90)) % 4
        r == a % Deg(90)
        m == IF q = 0 \/ q = 2 THEN SinQuadrant(QuadrantFraction(r))
             ELSE SinQuadrant(QuadrantFraction(Deg(90) - r))
        v == IF m = 0 /\ a % Deg(180) # 0 THEN 1 ELSE m
    IN  IF q < 2 THEN v ELSE -v

\* math.cos(math.radians(a))
CosDeg(a) == SinDeg(a + Deg(90))

-----------------------------------------------------------------------------
(* dem-generator *)

RmseThreshold == 2

Methods == {"tin", "idw", "kriging", "spline"}

\* gdal_operations.run_gdal_grid: the methods it has an algorithm for.
KnownMethod(m) == m \in {"tin", "idw", "kriging"}

NoError == [type |-> "", msg |-> ""]
ValueError(m) == [type |-> "ValueError", msg |-> m]
\* Any exception of the infrastructure (psycopg2, boto3, GDAL).
InfraError == [type |-> "Exception", msg |-> "infrastructure"]

StatusWrite(status, progress, demId, error) ==
    [status |-> status, progress |-> progress, demId |-> demId, error |-> error]

\* update_job_status: one UPDATE of the job row, by status and progress.
UpdateJobStatus(status, progress, demId, error) ==
    /\ statusLog' = Append(statusLog, StatusWrite(status, progress, demId, error))
    /\ job' = [job EXCEPT !.status = status,
                          !.progress = progress,
                          !.demId = IF status = "completed" THEN demId ELSE @,
                          !.error = IF status = "failed" THEN error ELSE @,
                          !.started = IF status = "processing" /\ progress = 0
                                      THEN TRUE ELSE @]

\* A gate one metre too lenient.
RmseExceedsLenient(r) == r > RmseThreshold + 1

\* The rmse > 2.0 comparison of the handler.
RmseExceeds(r) == r > RmseThreshold

\* raise inside the try block: control moves to the except clause.
Raise(e) ==
    /\ demPc' = "except"
    /\ exc' = e

InitJob == [status |-> "pending", progress |-> 0, demId |-> FALSE,
            error |-> NoError, started |-> FALSE]

DemStart(pc0) ==
    /\ demPc = pc0
    /\ runs = 0
    /\ method = "tin"
    /\ contours = -1
    /\ rmse = -1
    /\ statusLog = <<>>
    /\ job = InitJob
    /\ uploadedRun = FALSE
    /\ recordRun = FALSE
    /\ s3Objects = {}
    /\ demRecords = 0
    /\ response = 0
    /\ exc = NoError
    /\ earlier = <<>>

\* handler is invoked with an SQS message (lines 50-78).
Invoke ==
    /\ demPc = "idle"
    /\ runs < MaxRuns
    /\ \E m \in Methods : method' = m
    /\ runs' = runs + 1
    /\ earlier' = IF runs = 0 THEN earlier
                  ELSE Append(earlier, [method |-> method, response |-> response])
    /\ demPc' = "step1"
    /\ contours' = -1
    /\ rmse' = -1
    /\ statusLog' = <<>>
    /\ uploadedRun' = FALSE
    /\ recordRun' = FALSE
    /\ response' = 0
    /\ exc' = NoError
    /\ UNCHANGED <<terrainVars, profVars, valVars>>
    /\ UNCHANGED <<job, s3Objects, demRecords>>

\* 1. update_job_status(job_id, 'processing', 0)
Step1Processing ==
    /\ demPc = "step1"
    /\ UpdateJobStatus("processing", 0, FALSE, NoError)
    /\ demPc' = "step2"
    /\ UNCHANGED <<terrainVars, profVars, valVars>>
    /\ UNCHANGED <<runs, earlier, method, contours, rmse, uploadedRun, recordRun,
                   s3Objects, demRecords, response, exc>>

\* A check that no contour count fails.
NoContoursNever(n) == n < 0

\* len(contours) == 0, line 90.
NoContours(n) == n = 0

\* 2. fetch_contours_from_postgis, progress 20, the empty-set check.
Step2Fetch ==
    /\ demPc = "step2"
    /\ \/ /\ Raise(InfraError)
          /\ UNCHANGED <<contours, statusLog, job>>
       \/ \E n \in 0..MaxContours :
            /\ contours' = n
            /\ UpdateJobStatus("processing", 20, FALSE, NoError)
            /\ IF NoContours(n)
               THEN Raise(ValueError("No contour data found for project"))
               ELSE demPc' = "step3" /\ UNCHANGED exc
    /\ UNCHANGED <<terrainVars, profVars, valVars>>
    /\ UNCHANGED <<runs, earlier, method, rmse, uploadedRun, recordRun, s3Objects,
                   demRecords, response>>

\* 3. generate_dem (run_gdal_grid rejects an unknown method), progress 70.
Step3Generate ==
    /\ demPc = "step3"
    /\ \/ /\ ~KnownMethod(method)
          /\ Raise(ValueError("Unknown interpolation method"))
          /\ UNCHANGED <<statusLog, job>>
       \/ /\ KnownMethod(method)
          /\ Raise(InfraError)
          /\ UNCHANGED <<statusLog, job>>
       \/ /\ KnownMethod(method)
          /\ UpdateJobStatus("processing", 70, FALSE, NoError)
          /\ demPc' = "step4"
          /\ UNCHANGED exc
    /\ UNCHANGED <<terrainVars, profVars, valVars>>
    /\ UNCHANGED <<runs, earlier, method, contours, rmse, uploadedRun, recordRun,
                   s3Objects, demRecords, response>>

\* 4. validate_dem, progress 85, the RMSE gate.
Step4Validate ==
    /\ demPc = "step4"
    /\ \/ /\ Raise(ValueError("No valid elevation samples for validation"))
          /\ UNCHANGED <<rmse, statusLog, job>>
       \/ \E r \in 0..MaxRmse :
            /\ rmse' = r
            /\ UpdateJobStatus("processing", 85, FALSE, NoError)
            /\ IF RmseExceeds(r)
               THEN Raise(ValueError("DEM validation failed: RMSE exceeds threshold"))
               ELSE demPc' = "step5" /\ UNCHANGED exc
    /\ UNCHANGED <<terrainVars, profVars, valVars>>
    /\ UNCHANGED <<runs, earlier, method, contours, uploadedRun, recordRun, s3Objects,
                   demRecords, response>>

\* 5. calculate_dem_stats
Step5Stats ==
    /\ demPc = "step5"
    /\ \/ Raise(InfraError)
       \/ demPc' = "step6" /\ UNCHANGED exc
    /\ UNCHANGED <<terrainVars, profVars, valVars>>
    /\ UNCHANGED <<runs, earlier, method, contours, rmse, statusLog, job, uploadedRun,
                   recordRun, s3Objects, demRecords, response>>

\* The S3 key of the DEM: f"dems/{project_id}/dem_{resolution}m.tif"
DemKey == "dems/project/dem.tif"

\* 6. upload_to_s3, progress 95.
Step6Upload ==
    /\ demPc = "step6"
    /\ \/ /\ Raise(InfraError)
          /\ UNCHANGED <<statusLog, job, uploadedRun, s3Objects>>
       \/ /\ s3Objects' = s3Objects \cup {DemKey}
          /\ uploadedRun' = TRUE
          /\ UpdateJobStatus("processing", 95, FALSE, NoError)
          /\ demPc' = "step7"
          /\ UNCHANGED exc
    /\ UNCHANGED <<terrainVars, profVars, valVars>>
    /\ UNCHANGED <<runs, earlier, method, contours, rmse, recordRun, demRecords, response>>

\* 7. create_dem_record: INSERT with a fresh gen_random_uuid() id.
Step7Record ==
    /\ demPc = "step7"
    /\ \/ /\ Raise(InfraError)
          /\ UNCHANGED <<recordRun, demRecords>>
       \/ /\ demRecords' = demRecords + 1
          /\ recordRun' = TRUE
          /\ demPc' = "step8"
          /\ UNCHANGED exc
    /\ UNCHANGED <<terrainVars, profVars, valVars>>
    /\ UNCHANGED <<runs, earlier, method, contours, rmse, statusLog, job, uploadedRun,
                   s3Objects, response>>

\* 8. get_job_start_time, update_job_status 'completed', return 200.
Step8Completed ==
    /\ demPc = "step8"
    /\ \/ /\ Raise(InfraError)
          /\ UNCHANGED <<statusLog, job, response>>
       \/ /\ UpdateJobStatus("completed", 100, TRUE, NoError)
          /\ response' = 200
          /\ demPc' = "idle"
          /\ UNCHANGED exc
    /\ UNCHANGED <<terrainVars, profVars, valVars>>
    /\ UNCHANGED <<runs, earlier, method, contours, rmse, uploadedRun, recordRun,
                   s3Objects, demRecords>>

\* An except clause that returns 500 without recording the failure.
ExceptHandlerSilent ==
    /\ demPc = "except"
    /\ response' = 500
    /\ demPc' = "idle"
    /\ UNCHANGED <<terrainVars, profVars, valVars>>
    /\ UNCHANGED <<runs, earlier, method, contours, rmse, uploadedRun, recordRun,
                   s3Objects, demRecords, exc, statusLog, job>>

\* except Exception: update_job_status 'failed' with the error, return 500.
\* The status write itself is taken to succeed.
ExceptHandler ==
    /\ demPc = "except"
    /\ UpdateJobStatus("failed", 0, FALSE, exc)
    /\ response' = 500
    /\ demPc' = "idle"
    /\ UNCHANGED <<terrainVars, profVars, valVars>>
    /\ UNCHANGED <<runs, earlier, method, contours, rmse, uploadedRun, recordRun,
                   s3Objects, demRecords, exc>>


-----------------------------------------------------------------------------
(* Rasters: r[y][x], row y from the north edge, column x from the west edge *)

Rows(h) == 0..(h - 1)

Cols(w) == 0..(w - 1)

NoRaster == <<>>

IsInterior(y, x, h, w) == 1 <= y /\ y <= h - 2 /\ 1 <= x /\ x <= w - 2

Cells(h, w) == Rows(h) \X Cols(w)

\* The no-data value of the DEM and of the slope raster.
NoData == -9999

\* aspect = -1.0: flat, undefined.
FlatAspect == Deg(-1)

-----------------------------------------------------------------------------
(* slope-calculator/slope_operations.py *)

\* scipy.ndimage.gaussian_filter(elevation, sigma = 3 / 3.0): the kernel
\* exp(-x^2 / 2) over x = -4..4, normalised, in 256ths.
GaussWeights == <<0, 1, 14, 62, 102, 62, 14, 1, 0>>

GaussRadius == (Len(GaussWeights) - 1) \div 2

\* mode = 'reflect': (d c b a | a b c d | d c b a).
Reflect(i, n) ==
    LET m == i % (2 * n)
    IN  IF m < n THEN m ELSE 2 * n - 1 - m

RECURSIVE TapSum(_, _, _, _)
TapSum(line, n, i, k) ==
    IF k > Len(GaussWeights) THEN 0
    ELSE GaussWeights[k] * line[Reflect(i + k - 1 - GaussRadius, n)]
           + TapSum(line, n, i, k + 1)

\* One pass along a line of n cells; the result is stored in the array's
\* resolution.
Correlate1d(line, n) == [i \in 0..(n - 1) |-> RoundDiv(TapSum(line, n, i, 1), 256)]

\* The filter runs along axis 0 (rows), then along axis 1 on that result.
GaussianFilter(e, h, w) ==
    LET col(x)  == Correlate1d([y \in 0..(h - 1) |-> e[y][x]], h)
        pass1   == [x \in 0..(w - 1) |-> col(x)]
        row(y)  == Correlate1d([x \in 0..(w - 1) |-> pass1[x][y]], w)
    IN  [y \in 0..(h - 1) |-> row(y)]

\* floor(50 * sqrt(gx^2 + gy^2)) for gx, gy >= 0; operands too large to be
\* squared in 32 bits are scaled down first.
Hypot50(gx, gy) ==
    LET m == Max2(gx, gy)
    IN  IF m <= 600 THEN Isqrt(2500 * (gx * gx + gy * gy))
        ELSE LET k == m \div 16384 + 1
             IN  50 * k * Isqrt((gx \div k) * (gx \div k) + (gy \div k) * (gy \div k))

\* The central differences of lines 73-74 and 88-89, before the division by
\* 2 * cell size: <<east - west, south - north>>.
CentralDiff(e, y, x) ==
    <<e[y][x + 1] - e[y][x - 1], e[y + 1][x] - e[y - 1][x]>>

\* slope[y, x] = sqrt(dz_dx^2 + dz_dy^2) * 100 with dz_dx = a / (2 csx) and
\* dz_dy = b / (2 csy):  50 * sqrt((a csy)^2 + (b csx)^2) / (csx csy).
PixelSlope(e, y, x, csx, csy) ==
    LET d == CentralDiff(e, y, x)
    IN  Hypot50(Abs(d[1]) * csy, Abs(d[2]) * csx) \div (csx * csy)

\* Lines 67-77: zeros, then the interior cells.
SlopeInteriorPass(e, h, w, csx, csy) ==
    [y \in Rows(h) |-> [x \in Cols(w) |->
        IF IsInterior(y, x, h, w) THEN PixelSlope(e, y, x, csx, csy) ELSE 0]]

\* The edge copy without its last assignment (the east column).
SlopeEdgeCopyNoEast(s, h, w) ==
    LET s1 == [s EXCEPT ![0] = s[1]]
        s2 == [s1 EXCEPT ![h - 1] = s1[h - 2]]
        s3 == [y \in 0..(h - 1) |-> [s2[y] EXCEPT ![0] = s2[y][1]]]
    IN  s3

\* Lines 81-86: four slice assignments, in this order.
SlopeEdgeCopy(s, h, w) ==
    LET s1 == [s EXCEPT ![0] = s[1]]
        s2 == [s1 EXCEPT ![h - 1] = s1[h - 2]]
        s3 == [y \in 0..(h - 1) |-> [s2[y] EXCEPT ![0] = s2[y][1]]]
        s4 == [y \in 0..(h - 1) |-> [s3[y] EXCEPT ![w - 1] = s3[y][w - 2]]]
    IN  s4

\* calculate_slope: read, smooth if enabled, interior loop, edges, write.
CalculateSlope ==
    /\ terPc = "calculate_slope"
    /\ slopeElevation' = IF smoothing_enabled
                         THEN GaussianFilter(elevation, height, width)
                         ELSE elevation
    /\ slopeInterior' = SlopeInteriorPass(slopeElevation', height, width,
                                          cell_size_x_m, cell_size_y_m)
    /\ slope' = SlopeEdgeCopy(slopeInterior', height, width)
    /\ smoothCount' = IF smoothing_enabled THEN smoothCount + 1 ELSE smoothCount
    /\ terPc' = "calculate_aspect"
    /\ UNCHANGED <<inputVars, aspectVars, classVars, demVars, profVars, valVars, vecVars, statVars>>

\* Classes closed below and open above: [flat, moderate), [moderate, steep).
ClassifySlopeCellUpperExclusive(v, t) ==
    LET c1 == IF v < t.flat THEN 1 ELSE 0
        c2 == IF v >= t.flat /\ v < t.moderate THEN 2 ELSE c1
        c3 == IF v >= t.moderate /\ v < t.steep THEN 3 ELSE c2
        c4 == IF v >= t.steep THEN 4 ELSE c3
    IN  c4

\* The classification without its last assignment (very steep).
ClassifySlopeCellNoVerySteep(v, t) ==
    LET c1 == IF v <= t.flat THEN 1 ELSE 0
        c2 == IF v > t.flat /\ v <= t.moderate THEN 2 ELSE c1
        c3 == IF v > t.moderate /\ v <= t.steep THEN 3 ELSE c2
    IN  c3

\* classify_slope, lines 145-150: zeros, then four masked assignments in
\* this order, a later one overwriting an earlier one.
ClassifySlopeCell(v, t) ==
    LET c1 == IF v <= t.flat THEN 1 ELSE 0
        c2 == IF v > t.flat /\ v <= t.moderate THEN 2 ELSE c1
        c3 == IF v > t.moderate /\ v <= t.steep THEN 3 ELSE c2
        c4 == IF v > t.steep THEN 4 ELSE c3
    IN  c4

ClassifySlope ==
    /\ terPc = "classify_slope"
    /\ classifiedSlope' =
           [y \in Rows(height) |-> [x \in Cols(width) |->
               ClassifySlopeCell(slope[y][x], thresholds)]]
    /\ terPc' = "slope_statistics"
    /\ UNCHANGED <<inputVars, slopeVars, aspectVars, slopeStats, classifiedAspect, demVars, profVars, valVars, vecVars, statVars>>

\* valid_slope = slope[slope != -9999]
ValidSlope(v) == v # NoData

\* A percentage count / total * 100, as the fraction <<numerator, denominator>>.
Percent(count, total) == <<count * 100, total>>

\* calculate_slope_statistics, lines 203-238.  np.max of an empty array
\* raises ValueError, which the handler turns into a 500 response.
SlopeStatisticsOf(r, h, w, t, maxBuildable) ==
    LET valid     == {c \in Cells(h, w) : ValidSlope(r[c[1]][c[2]])}
        v(c)      == r[c[1]][c[2]]
        total     == Cardinality(valid)
        flat      == Cardinality({c \in valid : v(c) <= t.flat})
        moderate  == Cardinality({c \in valid : v(c) > t.flat /\ v(c) <= t.moderate})
        steep     == Cardinality({c \in valid : v(c) > t.moderate /\ v(c) <= t.steep})
        verySteep == Cardinality({c \in valid : v(c) > t.steep})
        unbuild   == Cardinality({c \in valid : v(c) > maxBuildable})
    IN  IF total = 0 THEN [raised |-> "ValueError"]
        ELSE [raised             |-> "",
              maxSlope           |-> CHOOSE m \in {r[c[1]][c[2]] : c \in valid} :
                                        \A c \in valid : r[c[1]][c[2]] <= m,
              flatPercent        |-> Percent(flat, total),
              moderatePercent    |-> Percent(moderate, total),
              steepPercent       |-> Percent(steep, total),
              verySteepPercent   |-> Percent(verySteep, total),
              unbuildablePercent |-> Percent(unbuild, total)]

NoStats == [raised |-> "none"]

SlopeStatistics ==
    /\ terPc = "slope_statistics"
    /\ slopeStats' = SlopeStatisticsOf(slope, height, width, thresholds,
                                       max_buildable_slope)
    /\ terPc' = IF slopeStats'.raised = ""
              THEN "identify_unbuildable_areas" ELSE "failed"
    /\ UNCHANGED <<inputVars, slopeVars, aspectVars, classifiedSlope,
                   classifiedAspect, demVars, profVars, valVars, vecVars, statVars>>

-----------------------------------------------------------------------------
(* Mask to polygons: gdal.Polygonize as both calculators call it *)

\* An Optional value: <<>> is None, <<v>> the value v.
None == <<>>

Adjacent(c, d) ==
    \/ c[1] = d[1] /\ Abs(c[2] - d[2]) = 1
    \/ c[2] = d[2] /\ Abs(c[1] - d[1]) = 1

\* The cells of S connected to the region by steps between 4-neighbours.
RECURSIVE Grow(_, _)
Grow(region, S) ==
    LET next == region \cup {d \in S : \E c \in region : Adjacent(c, d)}
    IN  IF next = region THEN region ELSE Grow(next, S)

\* gdal.Polygonize(band, maskBand, layer, 0): one feature per connected
\* region of cells of equal value, among the cells whose mask value is not
\* zero; every cell when maskBand is None.  The cell value is written to
\* field 0 of the feature.
Polygonize(band, maskBand, h, w) ==
    LET eligible == {c \in Cells(h, w) :
                        maskBand = None \/ maskBand[1][c[1]][c[2]] # 0}
        same(c) == {d \in eligible : band[d[1]][d[2]] = band[c[1]][c[2]]}
    IN  {[value |-> band[c[1]][c[2]], cells |-> Grow({c}, same(c))] :
            c \in eligible}

\* What Feature.GetField returns for a value written to a field of the
\* given type: an OFTString field holds the digits of the number.
GetField(value, fieldType) ==
    IF fieldType = "OFTInteger" THEN [int |-> value, str |-> ""]
    ELSE [int |-> 0, str |-> IF value = 1 THEN "1" ELSE "0"]

\* A Python int compared with ==.
PyInt(n) == [int |-> n, str |-> ""]

NotPolygonized == [computed |-> FALSE, none |-> TRUE, features |-> {}]
NoFeatures == [computed |-> TRUE, none |-> TRUE, features |-> {}]
FeatureCollection(fs) == [computed |-> TRUE, none |-> FALSE, features |-> fs]

\* _mask_to_geojson, aspect_operations.py lines 624-681.
MaskToGeojson(mask, h, w) ==
    LET layer == Polygonize(mask, None, h, w)
    IN  IF Cardinality(layer) = 0 THEN NoFeatures
        ELSE FeatureCollection(layer)

\* The mask of slope_operations.py line 354.
UnbuildableMask(r, h, w, max_buildable) ==
    [y \in Rows(h) |-> [x \in Cols(w) |->
        IF r[y][x] > max_buildable THEN 1 ELSE 0]]

\* identify_unbuildable_areas, slope_operations.py lines 349-412: the layer's
\* field 0 is 'category', an OFTString.
IdentifyUnbuildableAreasOf(r, h, w, max_buildable) ==
    LET unbuildable_mask == UnbuildableMask(r, h, w, max_buildable)
        layer == Polygonize(unbuildable_mask, <<unbuildable_mask>>, h, w)
        features == {f \in layer : GetField(f.value, "OFTString") = PyInt(1)}
    IN  IF \A c \in Cells(h, w) : unbuildable_mask[c[1]][c[2]] = 0
        THEN NoFeatures
        ELSE IF features = {} THEN NoFeatures
        ELSE FeatureCollection(features)

IdentifyUnbuildableAreas ==
    /\ terPc = "identify_unbuildable_areas"
    /\ unbuildable_geojson' =
           IdentifyUnbuildableAreasOf(slope, height, width, max_buildable_slope)
    /\ terPc' = "done"
    /\ UNCHANGED <<inputVars, slopeVars, aspectVars, classVars, demVars,
                   profVars, valVars, statVars, north_geojson, south_geojson>>

-----------------------------------------------------------------------------
(* aspect-calculator/aspect_operations.py *)

\* The aspect with atan2(dz_dy, dz_dx): the x gradient not negated.
PixelAspectNoNegation(e, y, x, csx, csy) ==
    LET d          == CentralDiff(e, y, x)
        aspect_deg == Deg(90) - Atan2Deg(d[2] * csx, d[1] * csy)
        wrapped    == IF aspect_deg < 0 THEN aspect_deg + Deg(360) ELSE aspect_deg
        normalized == IF wrapped >= Deg(360) THEN wrapped - Deg(360) ELSE wrapped
    IN  StoreFloat32(normalized)

\* Lines 88-107 for one interior cell that is not flat.
\* atan2(dz_dy, -dz_dx) = atan2(b * csx, -a * csy): both arguments scaled by
\* 2 * csx * csy > 0.
PixelAspect(e, y, x, csx, csy) ==
    LET d          == CentralDiff(e, y, x)
        aspect_deg == Deg(90) - Atan2Deg(d[2] * csx, -(d[1] * csy))
        wrapped    == IF aspect_deg < 0 THEN aspect_deg + Deg(360) ELSE aspect_deg
        normalized == IF wrapped >= Deg(360) THEN wrapped - Deg(360) ELSE wrapped
    IN  StoreFloat32(normalized)

\* slope[y, x] < flat_threshold
IsFlat(slopeValue, flatThreshold) == slopeValue < flatThreshold

\* Lines 75-107: -1 everywhere, then the interior cells.
AspectInteriorPass(e, s, h, w, csx, csy, flatThreshold) ==
    [y \in Rows(h) |-> [x \in Cols(w) |->
        IF ~IsInterior(y, x, h, w) THEN FlatAspect
        ELSE IF IsFlat(s[y][x], flatThreshold) THEN FlatAspect
        ELSE PixelAspect(e, y, x, csx, csy)]]

\* Lines 113-124: the rows, then the columns; a cell is copied only from a
\* neighbour that is not -1.
AspectEdgeCopy(a, h, w) ==
    LET a1 == [y \in Rows(h) |-> [x \in Cols(w) |->
                  IF y = 0 /\ a[1][x] # FlatAspect THEN a[1][x]
                  ELSE IF y = h - 1 /\ a[h - 2][x] # FlatAspect THEN a[h - 2][x]
                  ELSE a[y][x]]]
        a2 == [y \in Rows(h) |-> [x \in Cols(w) |->
                  IF x = 0 /\ a1[y][1] # FlatAspect THEN a1[y][1]
                  ELSE IF x = w - 1 /\ a1[y][w - 2] # FlatAspect THEN a1[y][w - 2]
                  ELSE a1[y][x]]]
    IN  a2

\* calculate_aspect: reads the DEM and the slope raster, writes the aspect
\* raster.
CalculateAspect ==
    /\ terPc = "calculate_aspect"
    /\ aspectElevation' = elevation
    /\ aspectInterior' = AspectInteriorPass(aspectElevation', slope, height, width,
                                            cell_size_x_m, cell_size_y_m,
                                            flat_threshold)
    /\ aspect' = AspectEdgeCopy(aspectInterior', height, width)
    /\ terPc' = "done"
    /\ UNCHANGED <<inputVars, slopeVars, classVars, demVars, profVars, valVars, vecVars, statVars>>

\* The bins closed above: (22.5, 67.5] and so on.
ClassifyAspectCellUpperInclusive(angle) ==
    IF angle < 0 THEN 0
    ELSE IF angle > HalfDeg(675) \/ angle <= HalfDeg(45) THEN 1
    ELSE IF angle <= HalfDeg(135) THEN 2
    ELSE IF angle <= HalfDeg(225) THEN 3
    ELSE IF angle <= HalfDeg(315) THEN 4
    ELSE IF angle <= HalfDeg(405) THEN 5
    ELSE IF angle <= HalfDeg(495) THEN 6
    ELSE IF angle <= HalfDeg(585) THEN 7
    ELSE 8

\* classify_aspect, lines 196-216, for one cell.
ClassifyAspectCell(angle) ==
    IF angle < 0 THEN 0
    ELSE IF angle >= HalfDeg(675) \/ angle < HalfDeg(45) THEN 1
    ELSE IF HalfDeg(45) <= angle /\ angle < HalfDeg(135) THEN 2
    ELSE IF HalfDeg(135) <= angle /\ angle < HalfDeg(225) THEN 3
    ELSE IF HalfDeg(225) <= angle /\ angle < HalfDeg(315) THEN 4
    ELSE IF HalfDeg(315) <= angle /\ angle < HalfDeg(405) THEN 5
    ELSE IF HalfDeg(405) <= angle /\ angle < HalfDeg(495) THEN 6
    ELSE IF HalfDeg(495) <= angle /\ angle < HalfDeg(585) THEN 7
    ELSE 8

ClassifyAspect ==
    /\ terPc = "classify_aspect"
    /\ classifiedAspect' =
           [y \in Rows(height) |-> [x \in Cols(width) |->
               ClassifyAspectCell(aspect[y][x])]]
    /\ terPc' = "aspect_statistics"
    /\ UNCHANGED <<inputVars, slopeVars, aspectVars, classifiedSlope, slopeStats,
                   demVars, profVars, valVars, vecVars, statVars>>

\* calculate_aspect_statistics, lines 300-328: the branch an angle takes.
StatDirection(angle) ==
    IF angle < 0 THEN "flat"
    ELSE IF angle >= HalfDeg(675) \/ angle < HalfDeg(45) THEN "N"
    ELSE IF HalfDeg(45) <= angle /\ angle < HalfDeg(135) THEN "NE"
    ELSE IF HalfDeg(135) <= angle /\ angle < HalfDeg(225) THEN "E"
    ELSE IF HalfDeg(225) <= angle /\ angle < HalfDeg(315) THEN "SE"
    ELSE IF HalfDeg(315) <= angle /\ angle < HalfDeg(405) THEN "S"
    ELSE IF HalfDeg(405) <= angle /\ angle < HalfDeg(495) THEN "SW"
    ELSE IF HalfDeg(495) <= angle /\ angle < HalfDeg(585) THEN "W"
    ELSE "NW"

\* The branches that also increment counts['northFacing'] (lines 309, 312,
\* 328) and counts['southFacing'] (lines 317, 320, 323).
NorthFacingBranches == {"N", "NE", "NW"}

SouthFacingBranches == {"SE", "S", "SW"}

\* aspect.flat: the cells in row-major order.
FlatOrder(r, h, w) == [i \in 1..(h * w) |-> r[(i - 1) \div w][(i - 1) % w]]

\* Every cell appended, the flat ones too.
IsValidAspectAlways(angle) == angle = angle

\* The else branch of line 303: the angle is appended to valid_aspects.
IsValidAspect(angle) == ~(angle < 0)

\* The counts dictionary after the loop of lines 300-328.
AspectCounts(cells) ==
    LET n(S) == Cardinality({i \in DOMAIN cells : StatDirection(cells[i]) \in S})
    IN  [d \in {"flat", "N", "NE", "E", "SE", "S", "SW", "W", "NW"} |-> n({d})]
            @@ [d \in {"northFacing"} |-> n(NorthFacingBranches)]
            @@ [d \in {"southFacing"} |-> n(SouthFacingBranches)]

\* _get_dominant_direction: the list of line 360 and the loop of lines 364-367.
Directions == <<"N", "NE", "E", "SE", "S", "SW", "W", "NW">>

\* The loop with >= in place of >: the last of the tied directions wins.
RECURSIVE DominantFromLast(_, _, _, _)
DominantFromLast(counts, i, max_count, dominant) ==
    IF i > Len(Directions) THEN dominant
    ELSE IF counts[Directions[i]] >= max_count
         THEN DominantFromLast(counts, i + 1, counts[Directions[i]], Directions[i])
         ELSE DominantFromLast(counts, i + 1, max_count, dominant)

RECURSIVE DominantFrom(_, _, _, _)
DominantFrom(counts, i, max_count, dominant) ==
    IF i > Len(Directions) THEN dominant
    ELSE IF counts[Directions[i]] > max_count
         THEN DominantFrom(counts, i + 1, counts[Directions[i]], Directions[i])
         ELSE DominantFrom(counts, i + 1, max_count, dominant)

GetDominantDirection(counts) == DominantFrom(counts, 1, 0, "N")

RECURSIVE SumSeq(_, _)
SumSeq(seq, i) == IF i > Len(seq) THEN 0 ELSE seq[i] + SumSeq(seq, i + 1)

\* The float64 sums of sines and cosines carry a rounding residue far below
\* the resolution of the model (sin(radians(10)) + sin(radians(350)) is
\* about -1e-16, not 0); Residues is the set of its possible signs.
\* sin(0.0) = 0.0 and cos(0.0) = 1.0 are exact.
Residues(aspects) ==
    IF \A i \in DOMAIN aspects : aspects[i] = 0 THEN {0} ELSE {-1, 0, 1}

\* The sines of the list cancel exactly in real arithmetic: every angle
\* comes with its mirror image 360 - a as often as itself.
SinesCancel(aspects) ==
    \A i \in DOMAIN aspects :
        Cardinality({j \in DOMAIN aspects : aspects[j] = aspects[i]})
            = Cardinality({j \in DOMAIN aspects :
                              aspects[j] = (Deg(360) - aspects[i]) % Deg(360)})

\* _calculate_circular_mean.  es and ec are the signs of the residues of
\* sum_sin and sum_cos; they decide the result only where a sum is zero at
\* the model's resolution.  atan2(sum_sin / n, sum_cos / n) has the
\* direction of (sum_sin, sum_cos).  Where the sines cancel exactly, a
\* negative sum_sin is float64 noise: mean_deg is negative and below the
\* spacing of float64 at 360, and mean_deg + 360 rounds to 360.0.
CalculateCircularMean(aspects, es, ec) ==
    IF aspects = <<>> THEN None
    ELSE LET sum_sin == SumSeq([i \in DOMAIN aspects |-> SinDeg(aspects[i])], 1)
             sum_cos == SumSeq([i \in DOMAIN aspects |-> CosDeg(aspects[i])], 1)
             y       == IF sum_sin # 0 THEN sum_sin ELSE es
             x       == IF sum_cos # 0 THEN sum_cos ELSE ec
         IN  IF sum_sin = 0 /\ sum_cos > 0
             THEN IF es >= 0 THEN <<0>>
                  ELSE IF SinesCancel(aspects) THEN <<Deg(360)>>
                  ELSE <<Deg(360) - 1>>
             ELSE LET mean_deg == IF y = 0 /\ x = 0 THEN 0 ELSE Atan2Deg(y, x)
                  IN  <<IF mean_deg < 0 THEN mean_deg + Deg(360) ELSE mean_deg>>

\* calculate_aspect_statistics, lines 280-345.
AspectStatisticsOf(r, h, w, es, ec) ==
    LET cells       == FlatOrder(r, h, w)
        total_cells == h * w
        counts      == AspectCounts(cells)
        valid       == SelectSeq(cells, IsValidAspect)
    IN  [computed           |-> TRUE,
         flatPercent        |-> Percent(counts["flat"], total_cells),
         northPercent       |-> Percent(counts["N"], total_cells),
         northeastPercent   |-> Percent(counts["NE"], total_cells),
         eastPercent        |-> Percent(counts["E"], total_cells),
         southeastPercent   |-> Percent(counts["SE"], total_cells),
         southPercent       |-> Percent(counts["S"], total_cells),
         southwestPercent   |-> Percent(counts["SW"], total_cells),
         westPercent        |-> Percent(counts["W"], total_cells),
         northwestPercent   |-> Percent(counts["NW"], total_cells),
         northFacingPercent |-> Percent(counts["northFacing"], total_cells),
         southFacingPercent |-> Percent(counts["southFacing"], total_cells),
         dominantDirection  |-> GetDominantDirection(counts),
         circularMeanAspect |-> IF valid # <<>>
                                THEN CalculateCircularMean(valid, es, ec)
                                ELSE None]

AspectStatistics ==
    /\ terPc = "aspect_statistics"
    /\ valid_aspects' = SelectSeq(FlatOrder(aspect, height, width), IsValidAspect)
    /\ \E es \in Residues(valid_aspects'), ec \in Residues(valid_aspects') :
           aspectStats' = AspectStatisticsOf(aspect, height, width, es, ec)
    /\ terPc' = "identify_facing_areas"
    /\ UNCHANGED <<inputVars, slopeVars, aspectVars, classVars, demVars, profVars, valVars, vecVars,
                   north_facing_mask, south_facing_mask>>

\* identify_facing_areas, lines 584-600: the two masks.
NorthFacingMaskCell(angle) ==
    IF angle < 0 THEN 0
    ELSE IF angle >= Deg(315) \/ angle < Deg(45) THEN 1 ELSE 0

SouthFacingMaskCell(angle) ==
    IF angle < 0 THEN 0
    ELSE IF Deg(135) <= angle /\ angle < Deg(225) THEN 1 ELSE 0

IdentifyFacingAreas ==
    /\ terPc = "identify_facing_areas"
    /\ north_facing_mask' =
           [y \in Rows(height) |-> [x \in Cols(width) |->
               NorthFacingMaskCell(aspect[y][x])]]
    /\ south_facing_mask' =
           [y \in Rows(height) |-> [x \in Cols(width) |->
               SouthFacingMaskCell(aspect[y][x])]]
    /\ north_geojson' = MaskToGeojson(north_facing_mask', height, width)
    /\ south_geojson' = MaskToGeojson(south_facing_mask', height, width)
    /\ terPc' = "done"
    /\ UNCHANGED <<inputVars, slopeVars, aspectVars, classVars, demVars,
                   profVars, valVars, aspectStats, valid_aspects, unbuildable_geojson>>

-----------------------------------------------------------------------------
(* profile-analyzer/profile_operations.py                                  *)
(*                                                                         *)
(* Numbers.  Distances along the line are whole metres.  A geographic     *)
(* coordinate is the arc length in whole metres from the point (0, 0)     *)
(* along the equator (lng) and along the meridian (lat); over the few     *)
(* kilometres the model spans, the haversine distance of two such points  *)
(* is their plane distance to well below a metre.  Pixel coordinates are  *)
(* in units of 1/PixelUnit pixel, elevations of profile points in units   *)
(* of 1/ElevUnit metre and grades in units of 1/ElevUnit percent.         *)

PixelUnit == 1000
ElevUnit == 1000

IndexError(m) == [type |-> "IndexError", msg |-> m]

\* floor(n / d) and ceil(n / d) for d > 0.
FloorDiv(n, d) == IF n >= 0 THEN n \div d ELSE -((-n + d - 1) \div d)
CeilDiv(n, d) == -FloorDiv(-n, d)

\* Python's round(): to the nearest whole number of units of u, halves to
\* the even neighbour.
RoundHalfEven(v, u) ==
    LET f == FloorDiv(v, u)
        r == v - f * u
    IN  IF 2 * r < u THEN f
        ELSE IF 2 * r > u THEN f + 1
        ELSE IF f % 2 = 0 THEN f ELSE f + 1

\* ProfilePoint.__init__, lines 23-28.
ProfilePoint(distance, elev, lat, lng, grade) ==
    [distance |-> distance, elevation |-> elev, lat |-> lat, lng |-> lng,
     grade |-> grade]

\* haversine_distance, lines 31-43.
HaversineDistance(lat1, lng1, lat2, lng2) ==
    Isqrt((lat2 - lat1) * (lat2 - lat1) + (lng2 - lng1) * (lng2 - lng1))

\* calculate_line_length, lines 82-89: coords[i] is <<lng, lat>>.
RECURSIVE LineLengthFrom(_, _)
LineLengthFrom(coords, i) ==
    IF i >= Len(coords) THEN 0
    ELSE HaversineDistance(coords[i][2], coords[i][1],
                           coords[i + 1][2], coords[i + 1][1])
             + LineLengthFrom(coords, i + 1)

CalculateLineLength(coords) == LineLengthFrom(coords, 1)

\* interpolate_point_on_line, lines 58-79, from segment i on.  After the
\* loop the function returns coords[-1], which raises IndexError on an empty
\* list.
RECURSIVE InterpolateFrom(_, _, _, _)
InterpolateFrom(coords, distance_along, i, cumulative_distance) ==
    IF i >= Len(coords)
    THEN IF coords = <<>>
         THEN [error |-> IndexError("list index out of range"),
               lng |-> 0, lat |-> 0]
         ELSE [error |-> NoError, lng |-> coords[Len(coords)][1],
               lat |-> coords[Len(coords)][2]]
    ELSE LET lng1 == coords[i][1]
             lat1 == coords[i][2]
             lng2 == coords[i + 1][1]
             lat2 == coords[i + 1][2]
             segment_distance == HaversineDistance(lat1, lng1, lat2, lng2)
             remaining == distance_along - cumulative_distance
         IN  IF cumulative_distance + segment_distance >= distance_along
             THEN IF segment_distance > 0
                  THEN [error |-> NoError,
                        lng |-> lng1 + RoundDiv((lng2 - lng1) * remaining,
                                                segment_distance),
                        lat |-> lat1 + RoundDiv((lat2 - lat1) * remaining,
                                                segment_distance)]
                  ELSE [error |-> NoError, lng |-> lng1, lat |-> lat1]
             ELSE InterpolateFrom(coords, distance_along, i + 1,
                                  cumulative_distance + segment_distance)

InterpolatePointOnLine(coords, distance_along, total_distance) ==
    InterpolateFrom(coords, distance_along, 1, 0)

\* dataset.GetGeoTransform(): a north-up grid of 500 m cells whose upper
\* left corner is at lng 0, lat 1000.
GeoTransform == <<0, 500, 0, 1000, 0, -500>>

\* geo_to_pixel, lines 94-96.
GeoToPixel(lng, lat, geotransform) ==
    LET along(v, origin, size) ==
            IF size > 0 THEN RoundDiv((v - origin) * PixelUnit, size)
            ELSE RoundDiv((origin - v) * PixelUnit, -size)
    IN  <<along(lng, geotransform[1], geotransform[2]),
          along(lat, geotransform[4], geotransform[6])>>

\* data.shape
ShapeHeight(d) == Cardinality(DOMAIN d)
ShapeWidth(d) == Cardinality(DOMAIN d[0])

\* bilinear_interpolation, lines 119-121: the boundary test.
OutsideBounds(x0, x1, y0, y1, h, w) == x0 < 0 \/ x1 >= w \/ y0 < 0 \/ y1 >= h

\* bilinear_interpolation, lines 111-143.
BilinearInterpolation(d, x, y, nd) ==
    LET x0 == FloorDiv(x, PixelUnit)
        x1 == x0 + 1
        y0 == FloorDiv(y, PixelUnit)
        y1 == y0 + 1
    IN  IF OutsideBounds(x0, x1, y0, y1, ShapeHeight(d), ShapeWidth(d))
        THEN [error |-> ValueError("outside DEM bounds"), z |-> 0]
        ELSE LET z00 == d[y0][x0]
                 z10 == d[y0][x1]
                 z01 == d[y1][x0]
                 z11 == d[y1][x1]
                 dx == x - x0 * PixelUnit
                 dy == y - y0 * PixelUnit
                 z0 == z00 * (PixelUnit - dx) + z10 * dx
                 z1 == z01 * (PixelUnit - dx) + z11 * dx
             IN  IF z00 = nd \/ z10 = nd \/ z01 = nd \/ z11 = nd
                 THEN [error |-> NoError,
                       z |-> d[RoundHalfEven(y, PixelUnit)]
                              [RoundHalfEven(x, PixelUnit)] * ElevUnit]
                 ELSE [error |-> NoError,
                       z |-> RoundDiv(z0 * (PixelUnit - dy) + z1 * dy,
                                      PixelUnit * (PixelUnit \div ElevUnit))]

\* "nodata or -9999", line 193: None and 0.0 are both falsy.
NodataOrDefault(nd) == IF nd = None \/ nd = <<0>> THEN NoData ELSE nd[1]

\* math.ceil(total_distance / sample_interval) + 1, line 176.
NumSamplesFloor(total_distance, interval) ==
    FloorDiv(total_distance, interval) + 1

NumSamples(total_distance, interval) == CeilDiv(total_distance, interval) + 1

\* One pass of the loop of sample_dem_along_line, lines 183-204.
SampleAttempt(d, nd, coords, i, interval, total_distance) ==
    LET distance_from_start == Min2(i * interval, total_distance)
        point == InterpolatePointOnLine(coords, distance_from_start,
                                        total_distance)
        pixel == GeoToPixel(point.lng, point.lat, GeoTransform)
        sample == BilinearInterpolation(d, pixel[1], pixel[2],
                                        NodataOrDefault(nd))
    IN  IF point.error # NoError
        THEN [distance |-> distance_from_start, lng |-> 0, lat |-> 0,
              elevation |-> 0, error |-> point.error]
        ELSE [distance |-> distance_from_start, lng |-> point.lng,
              lat |-> point.lat, elevation |-> sample.z,
              error |-> sample.error]

\* The passes of the loop, lines 175-204, in order.
SampleAttempts(d, nd, coords, interval) ==
    LET total_distance == CalculateLineLength(coords)
    IN  [i \in 1..NumSamples(total_distance, interval) |->
            SampleAttempt(d, nd, coords, i - 1, interval, total_distance)]

Sampled(try) == try.error = NoError

\* The except clause of lines 203-204 skips the sample.
RECURSIVE KeptSamplesUntilError(_)
KeptSamplesUntilError(tries) ==
    IF tries = <<>> \/ ~Sampled(Head(tries)) THEN <<>>
    ELSE <<Head(tries)>> \o KeptSamplesUntilError(Tail(tries))

KeptSamples(tries) == SelectSeq(tries, Sampled)

\* sample_dem_along_line, lines 162-209.
SampleDemAlongLine ==
    /\ profPc = "sample_dem_along_line"
    /\ attempts' = SampleAttempts(data, nodata, line_coords, sample_interval)
    /\ IF \E i \in DOMAIN attempts' : attempts'[i].error.type = "IndexError"
       THEN /\ profile_points' = <<>>
            /\ profExc' = IndexError("list index out of range")
            /\ profPc' = "failed"
       ELSE /\ profile_points' =
                   LET kept == KeptSamples(attempts')
                   IN  [i \in DOMAIN kept |->
                           ProfilePoint(kept[i].distance, kept[i].elevation,
                                        kept[i].lat, kept[i].lng, 0)]
            /\ profPc' = "calculate_grades"
            /\ UNCHANGED profExc
    /\ UNCHANGED <<data, nodata, line_coords, sample_interval,
                   max_grade_threshold, gradeCalls, profileStats>>
    /\ UNCHANGED <<profObjects, profileRecords>>
    /\ UNCHANGED <<demVars, terrainVars, valVars>>

\* (elevation_change / horizontal_distance) * 100, line 223.
GradePercent(elevation_change, horizontal_distance) ==
    RoundDiv(elevation_change * 100, horizontal_distance)

\* The body of the loop of calculate_grades, lines 215-226, for the point at
\* index i > 1.
GradeAfter(points, i) ==
    LET prev == points[i - 1]
        curr == points[i]
        horizontal_distance == curr.distance - prev.distance
        elevation_change == curr.elevation - prev.elevation
    IN  IF horizontal_distance > 0
        THEN GradePercent(elevation_change, horizontal_distance)
        ELSE 0

\* calculate_grades, lines 214-229, on a non-empty list.
CalculateGradesKeepFirst(points) ==
    [i \in DOMAIN points |->
        IF i = 1 THEN points[1]
        ELSE [points[i] EXCEPT !.grade = GradeAfter(points, i)]]

CalculateGradesOf(points) ==
    [i \in DOMAIN points |->
        IF i = 1 THEN [points[1] EXCEPT !.grade = 0]
        ELSE [points[i] EXCEPT !.grade = GradeAfter(points, i)]]

\* calculate_grades, lines 212-231; profile_points[0] raises IndexError on
\* an empty list.
ApplyCalculateGrades ==
    /\ gradeCalls' = gradeCalls + 1
    /\ IF profile_points = <<>>
       THEN /\ profExc' = IndexError("list index out of range")
            /\ profPc' = "failed"
            /\ UNCHANGED profile_points
       ELSE /\ profile_points' = CalculateGradesOf(profile_points)
            /\ profPc' = "calculate_profile_statistics"
            /\ UNCHANGED profExc
    /\ UNCHANGED <<data, nodata, line_coords, sample_interval,
                   max_grade_threshold, attempts, profileStats>>
    /\ UNCHANGED <<profObjects, profileRecords>>
    /\ UNCHANGED <<demVars, terrainVars, valVars>>

\* Step 4 of process_profile_generation.
CalculateGrades ==
    /\ profPc = "calculate_grades"
    /\ ApplyCalculateGrades

\* The consecutive pairs the loop of calculate_profile_statistics visits,
\* lines 253-259.
Segments(points) ==
    [i \in 1..(Len(points) - 1) |->
        [elevation_change |-> points[i + 1].elevation - points[i].elevation,
         segment_distance |-> points[i + 1].distance - points[i].distance,
         grade |-> points[i + 1].grade,
         start |-> points[i].distance,
         end |-> points[i + 1].distance]]

\* lines 262-265
ElevationGain(segs) ==
    SumSeq([i \in DOMAIN segs |->
               IF segs[i].elevation_change > 0
               THEN segs[i].elevation_change ELSE 0], 1)

ElevationLossSigned(segs) ==
    SumSeq([i \in DOMAIN segs |->
               IF segs[i].elevation_change > 0
               THEN 0 ELSE segs[i].elevation_change], 1)

ElevationLoss(segs) ==
    SumSeq([i \in DOMAIN segs |->
               IF segs[i].elevation_change > 0
               THEN 0 ELSE Abs(segs[i].elevation_change)], 1)

\* line 274
IsExcessiveInclusive(grade, threshold) == Abs(grade) >= threshold

IsExcessive(grade, threshold) == Abs(grade) > threshold

SetMax(S) == CHOOSE m \in S : \A v \in S : v <= m
SetMin(S) == CHOOSE m \in S : \A v \in S : m <= v

\* calculate_profile_statistics, lines 244-298, on a non-empty list.
\* Grades are rounded to a tenth of a percent in excessiveSegments.
ProfileStatisticsOf(points, threshold) ==
    LET segs == Segments(points)
        Excessive(sg) == IsExcessive(sg.grade, threshold)
        excessive == SelectSeq(segs, Excessive)
        excessive_grade_distance ==
            SumSeq([i \in DOMAIN excessive |->
                       excessive[i].segment_distance], 1)
        total_distance == points[Len(points)].distance
        elevations == {points[i].elevation : i \in DOMAIN points}
        grades == {segs[i].grade : i \in DOMAIN segs}
    IN  [computed |-> TRUE,
         totalDistance |-> total_distance,
         elevationGain |-> ElevationGain(segs),
         elevationLoss |-> ElevationLoss(segs),
         netElevationChange |->
             points[Len(points)].elevation - points[1].elevation,
         startElevation |-> points[1].elevation,
         endElevation |-> points[Len(points)].elevation,
         minElevation |-> SetMin(elevations),
         maxElevation |-> SetMax(elevations),
         maxGradeUphill |-> SetMax(grades \cup {0}),
         maxGradeDownhill |-> Abs(SetMin(grades \cup {0})),
         excessiveGradeDistance |-> excessive_grade_distance,
         excessiveGradePercent |->
             IF total_distance > 0
             THEN Percent(excessive_grade_distance, total_distance)
             ELSE <<0, 1>>,
         excessiveSegments |->
             [i \in DOMAIN excessive |->
                 [start |-> excessive[i].start,
                  end |-> excessive[i].end,
                  grade |-> RoundHalfEven(excessive[i].grade,
                                          ElevUnit \div 10)]]]

NoProfileStats == [computed |-> FALSE]

\* Step 5 of process_profile_generation; profile_points[-1] raises
\* IndexError on an empty list.
CalculateProfileStatistics ==
    /\ profPc = "calculate_profile_statistics"
    /\ IF profile_points = <<>>
       THEN /\ profExc' = IndexError("list index out of range")
            /\ profPc' = "failed"
            /\ UNCHANGED profileStats
       ELSE /\ profileStats' =
                   ProfileStatisticsOf(profile_points, max_grade_threshold)
            /\ profPc' = "done"
            /\ UNCHANGED profExc
    /\ UNCHANGED <<data, nodata, line_coords, sample_interval,
                   max_grade_threshold, attempts, profile_points, gradeCalls>>
    /\ UNCHANGED <<profObjects, profileRecords>>
    /\ UNCHANGED <<demVars, terrainVars, valVars>>

\* The S3 keys of steps 9: data.csv, chart.png and data.json under
\* projects/{project_id}/profiles/{profile_id}/.
ProfileKeys == {"data.csv", "chart.png", "data.json"}

\* Steps 6 to 9 of process_profile_generation: export_profile_csv,
\* generate_profile_chart, export_profile_json, then the three uploads.  An
\* upload that fails leaves the earlier ones in the bucket.
UploadResults ==
    /\ profPc = "done"
    /\ \/ /\ \E done \in {{}, {"data.csv"}, {"data.csv", "chart.png"}} :
                 profObjects' = profObjects \cup done
          /\ profExc' = InfraError
          /\ profPc' = "failed"
       \/ /\ profObjects' = profObjects \cup ProfileKeys
          /\ profPc' = "create_profile_record"
          /\ UNCHANGED profExc
    /\ UNCHANGED <<data, nodata, line_coords, sample_interval,
                   max_grade_threshold, attempts, profile_points, gradeCalls,
                   profileStats, profileRecords>>
    /\ UNCHANGED <<demVars, terrainVars, valVars>>

\* Step 10, create_profile_record, lines 236-342: one INSERT whose
\* lineGeometry is ST_GeomFromText of the LINESTRING of line_coords.  The
\* database is not part of the sources: a LINESTRING of a single point is
\* either rejected by it or stored.
CreateProfileRecord ==
    /\ profPc = "create_profile_record"
    /\ \/ /\ profExc' = InfraError
          /\ profPc' = "failed"
          /\ UNCHANGED profileRecords
       \/ /\ Len(line_coords) < 2
          /\ profExc' = InfraError
          /\ profPc' = "failed"
          /\ UNCHANGED profileRecords
       \/ /\ profileRecords' = profileRecords + 1
          /\ profPc' = "completed"
          /\ UNCHANGED profExc
    /\ UNCHANGED <<data, nodata, line_coords, sample_interval,
                   max_grade_threshold, attempts, profile_points, gradeCalls,
                   profileStats, profObjects>>
    /\ UNCHANGED <<demVars, terrainVars, valVars>>

\* calculate_grades applied once more to its own result.
CalculateGradesAgain ==
    /\ profPc = "calculate_profile_statistics"
    /\ gradeCalls < MaxGradeCalls
    /\ ApplyCalculateGrades

\* No profile request.
ProfileOff ==
    /\ profPc = "off"
    /\ data = NoRaster
    /\ nodata = None
    /\ line_coords = <<>>
    /\ sample_interval = 5
    /\ max_grade_threshold = 8 * ElevUnit
    /\ attempts = <<>>
    /\ profile_points = <<>>
    /\ gradeCalls = 0
    /\ profileStats = NoProfileStats
    /\ profExc = NoError
    /\ profObjects = {}
    /\ profileRecords = 0

-----------------------------------------------------------------------------
(* dem-generator/validation.py                                             *)
(*                                                                         *)
(* Coordinates are whole quarters of a cell, elevations whole metres; a    *)
(* DEM cell is <<v>> or NaN.                                               *)

NaN == <<>>

\* int(a / b): Python's int() drops the fraction, towards zero.
TruncDiv(a, b) == Sign(a) * Sign(b) * (Abs(a) \div Abs(b))

\* geo_to_pixel, validation.py lines 92-112.
ValidationGeoToPixel(lng, lat, geotransform) ==
    LET origin_x == geotransform[1]
        origin_y == geotransform[4]
        pixel_width == geotransform[2]
        pixel_height == geotransform[6]
    IN  <<TruncDiv(lng - origin_x, pixel_width),
          TruncDiv(lat - origin_y, pixel_height)>>

\* ds.GetGeoTransform(): origin at (0, 0), north-up cells four units wide.
ValidationGeoTransform == <<0, 4, 0, 0, 0, -4>>

\* sample_interval, line 54, with a divisor of 10 instead of 20.
ValidationSampleIntervalTenth(n) == Max2(1, n \div 10)

\* sample_interval, line 54.
ValidationSampleInterval(n) == Max2(1, n \div 20)

\* range(0, n, step), as a sequence.
Range0(n, step) == [k \in 1..CeilDiv(n, step) |-> (k - 1) * step]

\* Line 64.
WithinBounds(px, py, array) ==
    /\ 0 <= px /\ px < Len(array[1])
    /\ 0 <= py /\ py < Len(array)

\* Lines 57-71 for vertex i (from 0) of contour c: the error appended, as
\* <<error>>, or <<>> when the vertex is skipped.
VertexError(array, contour, i) ==
    LET coord == contour.coordinates[i + 1]
        p == ValidationGeoToPixel(coord[1], coord[2], ValidationGeoTransform)
        px == p[1]
        py == p[2]
    IN  IF WithinBounds(px, py, array)
        THEN LET dem_elevation == array[py + 1][px + 1]
             IN  IF dem_elevation # <<NoData>> /\ dem_elevation # NaN
                 THEN <<Abs(dem_elevation[1] - contour.elevation)>>
                 ELSE <<>>
        ELSE <<>>

\* The indices the inner loop visits for a contour, lines 50-56.
ExaminedOf(contour) ==
    IF contour.type = "LineString"
    THEN Range0(Len(contour.coordinates),
                ValidationSampleInterval(Len(contour.coordinates)))
    ELSE <<>>

\* The <<contour, vertex>> pairs that append an error, from contour c on.
RECURSIVE ContributingFrom(_, _, _)
ContributingFrom(array, cs, c) ==
    IF c > Len(cs) THEN <<>>
    ELSE LET ex == ExaminedOf(cs[c])
             kept(i) == VertexError(array, cs[c], i) # <<>>
         IN  [k \in 1..Len(SelectSeq(ex, kept)) |->
                 <<c, SelectSeq(ex, kept)[k]>>]
             \o ContributingFrom(array, cs, c + 1)

\* np.sqrt(np.mean(errors ** 2)), in centimetres.
RmseOf(errs) ==
    Isqrt((10000 * SumSeq([k \in 1..Len(errs) |-> errs[k] * errs[k]], 1))
              \div Len(errs))

\* Lines 74-88; tolerance is 0.5 m.
MetricsOf(errs) ==
    IF Len(errs) = 0
    THEN [raised |-> "ValueError", rmse |-> 0, maxDeviation |-> 0,
          contourMatchPercentage |-> <<0, 1>>, sampleCount |-> 0]
    ELSE [raised |-> "",
          rmse |-> RmseOf(errs),
          maxDeviation |-> SetMax({errs[k] : k \in 1..Len(errs)}),
          contourMatchPercentage |->
              Percent(Cardinality({k \in 1..Len(errs) : 2 * errs[k] <= 1}),
                      Len(errs)),
          sampleCount |-> Len(errs)]

NoMetrics ==
    [raised |-> "", rmse |-> 0, maxDeviation |-> 0,
     contourMatchPercentage |-> <<0, 1>>, sampleCount |-> 0]

\* validate_dem, validation.py lines 15-89.
ValidateDem ==
    /\ valPc = "validate_dem"
    /\ examined' = [c \in 1..Len(valContours) |-> ExaminedOf(valContours[c])]
    /\ contributing' = ContributingFrom(dem_array, valContours, 1)
    /\ errors' = [k \in 1..Len(contributing') |->
                     VertexError(dem_array, valContours[contributing'[k][1]],
                                 contributing'[k][2])[1]]
    /\ metrics' = MetricsOf(errors')
    /\ valPc' = IF metrics'.raised = "" THEN "returned" ELSE "raised"
    /\ UNCHANGED <<dem_array, valContours>>
    /\ UNCHANGED <<demVars, terrainVars, profVars>>

ValidateOff ==
    /\ valPc = "off"
    /\ dem_array = <<>>
    /\ valContours = <<>>
    /\ examined = <<>>
    /\ contributing = <<>>
    /\ errors = <<>>
    /\ metrics = NoMetrics

-----------------------------------------------------------------------------

NextDem ==
    \/ Invoke
    \/ Step1Processing
    \/ Step2Fetch
    \/ Step3Generate
    \/ Step4Validate
    \/ Step5Stats
    \/ Step6Upload
    \/ Step7Record
    \/ Step8Completed
    \/ ExceptHandler

-----------------------------------------------------------------------------
(* Inputs of the terrain pipeline *)

\* Largest raster height and width explored.
MaxDim == 4

\* Elevation of the north-west corner of the test surfaces, metres.
BaseElevation == 100

\* Elevation steps per cell of the test planes, metres.
Gradients == {-1, 0, 1}

\* One cell may depart from the plane: a no-data cell, or a cliff.
Cliff == 2^23

SpikeKinds == {"nodata", "cliff"}

Spikes(h, w) == {<<>>} \cup {<<c[1], c[2], k>> : c \in Cells(h, w), k \in SpikeKinds}

Surface(h, w, gx, gy, spike) ==
    [y \in Rows(h) |-> [x \in Cols(w) |->
        IF spike # <<>> /\ spike[1] = y /\ spike[2] = x
        THEN IF spike[3] = "nodata" THEN NoData ELSE Cliff
        ELSE BaseElevation + gx * x + gy * y]]

\* <<cell_size_x_m, cell_size_y_m>>
CellSizes == {<<1, 1>>, <<2, 1>>}

FlatThresholds == {2, 60}

\* The handler's defaults: flatThreshold 5, moderateThreshold 15,
\* steepThreshold 25, maxBuildableSlope 15.
DefaultThresholds == [flat |-> 5, moderate |-> 15, steep |-> 25]

DefaultMaxBuildable == 15

NoAspectStats == [computed |-> FALSE]

NoAspectResults ==
    /\ aspectStats = NoAspectStats
    /\ valid_aspects = <<>>
    /\ north_facing_mask = NoRaster
    /\ south_facing_mask = NoRaster
    /\ north_geojson = NotPolygonized
    /\ south_geojson = NotPolygonized
    /\ unbuildable_geojson = NotPolygonized

NoResults ==
    /\ slope = NoRaster
    /\ slopeInterior = NoRaster
    /\ slopeElevation = NoRaster
    /\ smoothCount = 0
    /\ aspect = NoRaster
    /\ aspectInterior = NoRaster
    /\ aspectElevation = NoRaster
    /\ classifiedSlope = NoRaster
    /\ slopeStats = NoStats
    /\ classifiedAspect = NoRaster
    /\ NoAspectResults

TerrainOff ==
    /\ terPc = "off"
    /\ height = 0
    /\ width = 0
    /\ cell_size_x_m = 1
    /\ cell_size_y_m = 1
    /\ elevation = NoRaster
    /\ smoothing_enabled = FALSE
    /\ flat_threshold = 2
    /\ thresholds = DefaultThresholds
    /\ max_buildable_slope = DefaultMaxBuildable
    /\ NoResults

InitTerrain ==
    /\ DemStart("off")
    /\ ValidateOff
    /\ ProfileOff
    /\ terPc = "calculate_slope"
    /\ height \in 3..MaxDim
    /\ width \in 3..MaxDim
    /\ \E gx \in Gradients, gy \in Gradients, spike \in Spikes(height, width) :
           elevation = Surface(height, width, gx, gy, spike)
    /\ \E cs \in CellSizes : cell_size_x_m = cs[1] /\ cell_size_y_m = cs[2]
    /\ smoothing_enabled \in BOOLEAN
    /\ flat_threshold \in FlatThresholds
    /\ thresholds = DefaultThresholds
    /\ max_buildable_slope = DefaultMaxBuildable
    /\ NoResults

NextTerrain ==
    \/ CalculateSlope
    \/ CalculateAspect

\* calculate_slope, then calculate_aspect on the same DEM and on the slope
\* raster just written.
SpecTerrain == InitTerrain /\ [][NextTerrain]_vars

-----------------------------------------------------------------------------
(* Inputs of the classification functions on their own *)

\* Longest one-row raster explored.
MaxRasterCells == 2

SlopeSamples == {NoData, 0, 2, 5, 6, 10, 15, 16, 20, 25, 26, 30}

ThresholdSets == {DefaultThresholds, [flat |-> 2, moderate |-> 10, steep |-> 20]}

\* The angles at, just below and just above every bin boundary, the ends of
\* the compass and the flat marker.
AspectSamples ==
    {HalfDeg(45 + 90 * k) + d : k \in 0..7, d \in {-1, 0, 1}}
        \cup {0, Deg(10), Deg(350), Deg(360) - 32, Deg(360), FlatAspect, Deg(-2)}

RowRaster(cells) == [y \in Rows(1) |-> [x \in Cols(Len(cells)) |-> cells[x + 1]]]

RowsOver(S) ==
    UNION {[1..n -> S] : n \in 1..MaxRasterCells}

InitClassify ==
    /\ DemStart("off")
    /\ ValidateOff
    /\ ProfileOff
    /\ height = 1
    /\ cell_size_x_m = 1
    /\ cell_size_y_m = 1
    /\ elevation = NoRaster
    /\ smoothing_enabled = FALSE
    /\ flat_threshold = 2
    /\ max_buildable_slope = DefaultMaxBuildable
    /\ slopeInterior = NoRaster
    /\ slopeElevation = NoRaster
    /\ smoothCount = 0
    /\ aspectInterior = NoRaster
    /\ aspectElevation = NoRaster
    /\ classifiedSlope = NoRaster
    /\ slopeStats = NoStats
    /\ classifiedAspect = NoRaster
    /\ NoAspectResults
    /\ \/ /\ terPc = "classify_slope"
          /\ \E cells \in RowsOver(SlopeSamples)
                            \cup {<<2, 10, 20, 30>>, <<20, 2, 30>>} :
                 /\ width = Len(cells)
                 /\ slope = RowRaster(cells)
          /\ thresholds \in ThresholdSets
          /\ aspect = NoRaster
       \/ /\ terPc = "classify_aspect"
          /\ \E cells \in RowsOver(AspectSamples)
                            \cup {<<0, Deg(180), Deg(350)>>} :
                 /\ width = Len(cells)
                 /\ aspect = RowRaster(cells)
          /\ thresholds = DefaultThresholds
          /\ slope = NoRaster

NextClassify ==
    \/ ClassifySlope
    \/ SlopeStatistics
    \/ IdentifyUnbuildableAreas
    \/ ClassifyAspect
    \/ AspectStatistics
    \/ IdentifyFacingAreas

\* classify_slope, calculate_slope_statistics and classify_aspect applied to
\* rasters of sample values.
SpecClassify == InitClassify /\ [][NextClassify]_vars

-----------------------------------------------------------------------------
(* The DEM generator on its own *)

InitDem == DemStart("idle") /\ TerrainOff /\ ProfileOff /\ ValidateOff

SpecDem == InitDem /\ [][NextDem]_vars

\* The steps of an invocation once it has started: Lambda runs the handler
\* until it returns.
HandlerStep ==
    \/ Step1Processing
    \/ Step2Fetch
    \/ Step3Generate
    \/ Step4Validate
    \/ Step5Stats
    \/ Step6Upload
    \/ Step7Record
    \/ Step8Completed
    \/ ExceptHandler

\* The DEM handler where an invocation that has started runs to its return.
SpecDemLive == InitDem /\ [][NextDem]_vars /\ WF_vars(HandlerStep)

-----------------------------------------------------------------------------
(* The profile workflow: steps 3 to 5 of process_profile_generation *)

ProfileDems ==
    LET Ramp == [y \in Rows(ProfileRows) |-> [x \in Cols(ProfileCols) |->
                    100 + 25 * x + 10 * y]]
        Ridge == [y \in Rows(ProfileRows) |-> [x \in Cols(ProfileCols) |->
                    100 + 50 * (x % 2) + 10 * y]]
    IN  {<<Ramp, None>>,
         <<Ridge, <<NoData>>>>,
         <<[Ridge EXCEPT ![1][1] = NoData], <<NoData>>>>,
         <<[Ramp EXCEPT ![1][1] = 0], <<0>>>>}

\* <<lng, lat>> of the vertices: the pixels (0, 0), (2, 0), (1, 1) and
\* (2, 1.5), then (3.5, 0) and (-0.5, 0.5).
ProfileVertices ==
    {<<0, 1000>>, <<1000, 1000>>, <<500, 500>>, <<1000, 250>>,
     <<1750, 1000>>, <<-250, 750>>}

Lines == UNION {[1..n -> ProfileVertices] : n \in 0..MaxVertices}

SampleIntervals == {250, 400}

GradeThresholds == {8 * ElevUnit, 2 * ElevUnit}

InitSample ==
    /\ DemStart("off")
    /\ ValidateOff
    /\ TerrainOff
    /\ profPc = "sample_dem_along_line"
    /\ \E dem \in ProfileDems : data = dem[1] /\ nodata = dem[2]
    /\ line_coords \in Lines
    /\ sample_interval \in SampleIntervals
    /\ max_grade_threshold \in GradeThresholds
    /\ attempts = <<>>
    /\ profile_points = <<>>
    /\ gradeCalls = 0
    /\ profileStats = NoProfileStats
    /\ profExc = NoError
    /\ profObjects = {}
    /\ profileRecords = 0

NextSample ==
    \/ SampleDemAlongLine
    \/ CalculateGrades
    \/ CalculateProfileStatistics
    \/ UploadResults
    \/ CreateProfileRecord

SpecSample == InitSample /\ [][NextSample]_vars

-----------------------------------------------------------------------------
(* calculate_grades and calculate_profile_statistics on lists of points *)

Increments == {0, 250}

PointElevations == {100 * ElevUnit, 120 * ElevUnit, 95 * ElevUnit}

\* The grade the points carry before calculate_grades.
InitialGrades == {0, 7 * ElevUnit}

\* Points along the northern edge of the grid, at non-decreasing distances.
PointsOf(incs, elevs, g0) ==
    [i \in DOMAIN incs |->
        LET distance == SumSeq(SubSeq(incs, 1, i), 1)
        IN  ProfilePoint(distance, elevs[i], 1000, distance, g0)]

PointLists ==
    UNION {{PointsOf(incs, elevs, g0) :
               incs \in [1..n -> Increments],
               elevs \in [1..n -> PointElevations],
               g0 \in InitialGrades} : n \in 0..MaxPoints}

InitPoints ==
    /\ DemStart("off")
    /\ ValidateOff
    /\ TerrainOff
    /\ profPc = "calculate_grades"
    /\ data = NoRaster
    /\ nodata = None
    /\ line_coords = <<>>
    /\ sample_interval = 5
    /\ max_grade_threshold \in GradeThresholds
    /\ attempts = <<>>
    /\ profile_points \in PointLists
    /\ gradeCalls = 0
    /\ profileStats = NoProfileStats
    /\ profExc = NoError
    /\ profObjects = {}
    /\ profileRecords = 0

NextProfile ==
    \/ CalculateGrades
    \/ CalculateGradesAgain
    \/ CalculateProfileStatistics

SpecProfile == InitPoints /\ [][NextProfile]_vars

-----------------------------------------------------------------------------
(* validate_dem on its own *)

\* Most vertices of a contour.
MaxCoordinates == 45

\* A 2 x 3 DEM around 100 m, and one with a no-data and a NaN cell.
ValidationDems ==
    { << << <<100>>, <<101>>, <<103>> >>, << <<100>>, <<100>>, <<98>> >> >>,
      << << <<NoData>>, <<101>>, <<100>> >>, << NaN, <<100>>, <<102>> >> >> }

\* West of the origin by more and by less than a cell, on it, east of it.
StartLngs == {-5, -1, 0, 2}

\* North of the origin by more and by less than a cell, on it, inside the
\* grid, south of the grid.
StartLats == {5, 1, 0, -3, -9}

ContourLine(n, lng0, lat0, dx) ==
    [type |-> "LineString", elevation |-> 100,
     coordinates |-> [i \in 1..n |-> <<lng0 + (i - 1) * dx, lat0>>]]

\* Contours that may follow the first one: a geometry that is not a
\* LineString, and a short line inside the grid.
FollowingContours ==
    { <<>>,
      << [type |-> "MultiLineString", elevation |-> 100, coordinates |-> <<>>] >>,
      << ContourLine(2, 5, -5, 4) >> }

InitValidate ==
    /\ DemStart("off")
    /\ TerrainOff
    /\ ProfileOff
    /\ valPc = "validate_dem"
    /\ dem_array \in ValidationDems
    /\ \E n \in 1..MaxCoordinates, lng0 \in StartLngs, lat0 \in StartLats,
          dx \in {0, 1}, rest \in FollowingContours :
           valContours = <<ContourLine(n, lng0, lat0, dx)>> \o rest
    /\ examined = <<>>
    /\ contributing = <<>>
    /\ errors = <<>>
    /\ metrics = NoMetrics

NextValidate == ValidateDem

SpecValidate == InitValidate /\ [][NextValidate]_vars

-----------------------------------------------------------------------------
(* Properties *)

CompletedWritten ==
    \E i \in 1..Len(statusLog) : statusLog[i].status = "completed"

RunEnded == demPc = "idle" /\ runs > 0

\* C1: in every run of the DEM handler the upload, the DEM record and the
\* 'completed' status happen only if the validation RMSE is at most 2.0; once
\* the RMSE is known to exceed 2.0 none of the three has happened or will
\* happen in the run, and the run ends with the job 'failed' (response 500).
C1_RmseGate ==
    /\ (uploadedRun \/ recordRun \/ CompletedWritten)
           => (0 <= rmse /\ rmse <= RmseThreshold)
    /\ rmse > RmseThreshold
           => /\ ~uploadedRun /\ ~recordRun /\ ~CompletedWritten
              /\ demPc \in {"except", "idle"}
              /\ RunEnded => (job.status = "failed" /\ response = 500)

\* A second run fails the gate after a first run has completed.
C1_Witness ==
    /\ RunEnded
    /\ runs = 2
    /\ demRecords = 1
    /\ rmse > RmseThreshold
    /\ job.status = "failed"

SlopeWritten == slope # NoRaster /\ elevation # NoRaster

AspectWritten == aspect # NoRaster /\ elevation # NoRaster

InteriorCells == {c \in Cells(height, width) : IsInterior(c[1], c[2], height, width)}

\* The four cells of the central differences of cell c.
DiffNeighbours(c) ==
    {<<c[1], c[2] + 1>>, <<c[1], c[2] - 1>>, <<c[1] + 1, c[2]>>, <<c[1] - 1, c[2]>>}

\* C2: calculate_slope leaves as no-data every interior cell that has the
\* no-data value among the four cells of its central differences.
C2_NoDataNotInGradient ==
    SlopeWritten =>
        \A c \in InteriorCells :
            (\E n \in DiffNeighbours(c) : slopeElevation[n[1]][n[2]] = NoData)
                => slope[c[1]][c[2]] = NoData

\* C3: classify_aspect gives every angle in [0, 360) the direction of its
\* bin, N (1) from 337.5 and below 22.5, then NE..NW (2..8) for the seven
\* half-open 45-degree bins from 22.5, never Flat; a negative angle gives
\* Flat (0).
C3_AspectBins ==
    classifiedAspect # NoRaster =>
        \A c \in Cells(height, width) :
            LET a == aspect[c[1]][c[2]]
                k == classifiedAspect[c[1]][c[2]]
            IN  /\ a < 0 => k = 0
                /\ (0 <= a /\ a < Deg(360)) =>
                      /\ k \in 1..8
                      /\ k = 1 <=> (a >= HalfDeg(675) \/ a < HalfDeg(45))
                      /\ \A j \in 2..8 :
                            k = j <=> /\ HalfDeg(45) + (j - 2) * Deg(45) <= a
                                      /\ a < HalfDeg(45) + (j - 1) * Deg(45)

\* An angle exactly on 22.5 is NE and the one just below it is N.
C3_Witness ==
    /\ classifiedAspect # NoRaster
    /\ width = 2
    /\ aspect[0][0] = HalfDeg(45) /\ classifiedAspect[0][0] = 2
    /\ aspect[0][1] = HalfDeg(45) - 1 /\ classifiedAspect[0][1] = 1

\* Number of valid cells of the slope raster that classify_slope put in class k.
ClassCount(k) ==
    Cardinality({c \in Cells(height, width) :
                    /\ ValidSlope(slope[c[1]][c[2]])
                    /\ classifiedSlope[c[1]][c[2]] = k})

StatsReturned == slopeStats.raised = ""

\* C4 as stated: a slope equal to the flat threshold is Moderate, equal to
\* the moderate threshold Steep, equal to the steep threshold VerySteep.
C4_UpperBoundExclusive ==
    classifiedSlope # NoRaster =>
        \A c \in Cells(height, width) :
            LET v == slope[c[1]][c[2]]
                k == classifiedSlope[c[1]][c[2]]
            IN  /\ v = thresholds.flat => k = 2
                /\ v = thresholds.moderate => k = 3
                /\ v = thresholds.steep => k = 4

\* C4, amended: each class is closed above.  A slope equal to the flat
\* threshold is Flat, equal to the moderate threshold Moderate, equal to the
\* steep threshold Steep, and calculate_slope_statistics counts every valid
\* cell in the class classify_slope gives it.
C4_UpperBoundInclusive ==
    classifiedSlope # NoRaster =>
        /\ \A c \in Cells(height, width) :
               LET v == slope[c[1]][c[2]]
                   k == classifiedSlope[c[1]][c[2]]
               IN  /\ v = thresholds.flat => k = 1
                   /\ v = thresholds.moderate => k = 2
                   /\ v = thresholds.steep => k = 3
        /\ StatsReturned =>
               /\ slopeStats.flatPercent[1] = 100 * ClassCount(1)
               /\ slopeStats.moderatePercent[1] = 100 * ClassCount(2)
               /\ slopeStats.steepPercent[1] = 100 * ClassCount(3)
               /\ slopeStats.verySteepPercent[1] = 100 * ClassCount(4)

\* Two cells on the flat and on the steep threshold, classified and counted.
C4_Witness ==
    /\ classifiedSlope # NoRaster
    /\ StatsReturned
    /\ width = 2
    /\ slope[0][0] = thresholds.flat /\ classifiedSlope[0][0] = 1
    /\ slope[0][1] = thresholds.steep /\ classifiedSlope[0][1] = 3
    /\ slopeStats.flatPercent = <<100, 2>>

\* C5: for thresholds flat < moderate < steep classify_slope gives every
\* cell one of the classes 1..4, never 0; slopes [2, 10, 20, 30] with
\* thresholds 5, 15, 25 give [1, 2, 3, 4]; the four class percentages of
\* calculate_slope_statistics sum to 100.
C5_FourClasses ==
    (/\ thresholds.flat < thresholds.moderate
     /\ thresholds.moderate < thresholds.steep
     /\ classifiedSlope # NoRaster) =>
        /\ \A c \in Cells(height, width) : classifiedSlope[c[1]][c[2]] \in 1..4
        /\ (slope = RowRaster(<<2, 10, 20, 30>>) /\ thresholds = DefaultThresholds)
               => classifiedSlope = RowRaster(<<1, 2, 3, 4>>)
        /\ StatsReturned =>
               LET p == <<slopeStats.flatPercent, slopeStats.moderatePercent,
                          slopeStats.steepPercent, slopeStats.verySteepPercent>>
               IN  /\ \A i \in 1..4 : p[i][2] = p[1][2] /\ p[i][2] > 0
                   /\ p[1][1] + p[2][1] + p[3][1] + p[4][1] = 100 * p[1][2]

\* The scenario raster, classified and with its statistics: 25 percent each.
C5_Witness ==
    /\ slope = RowRaster(<<2, 10, 20, 30>>)
    /\ thresholds = DefaultThresholds
    /\ classifiedSlope = RowRaster(<<1, 2, 3, 4>>)
    /\ StatsReturned
    /\ slopeStats.verySteepPercent = <<100, 4>>

\* C6: in the aspect grid of calculate_aspect a cell, interior or edge, is
\* -1 if and only if the slope raster is below the flat threshold there, and
\* every other cell is in [0, 360).
C6_FlatIffBelowThreshold ==
    AspectWritten =>
        \A c \in Cells(height, width) :
            LET a == aspect[c[1]][c[2]]
            IN  /\ a = FlatAspect <=> slope[c[1]][c[2]] < flat_threshold
                /\ a # FlatAspect => (0 <= a /\ a < Deg(360))

\* C7: every cell of the slope grid is non-negative and every cell of the
\* aspect grid is -1 or in [0, 360), never 360.
C7_Ranges ==
    /\ SlopeWritten => \A c \in Cells(height, width) : slope[c[1]][c[2]] >= 0
    /\ AspectWritten =>
           \A c \in Cells(height, width) :
               LET a == aspect[c[1]][c[2]]
               IN  a = FlatAspect \/ (0 <= a /\ a < Deg(360))

Clamp(v, lo, hi) == Max2(lo, Min2(v, hi))

\* C8: after calculate_slope and calculate_aspect every edge cell holds the
\* value of its nearest interior cell (clamp(r, 1, h-2), clamp(c, 1, w-2)),
\* and every interior cell the value the interior pass gave it.
C8_EdgeClamp ==
    \A c \in Cells(height, width) :
        LET r == Clamp(c[1], 1, height - 2)
            q == Clamp(c[2], 1, width - 2)
        IN  /\ SlopeWritten => slope[c[1]][c[2]] = slopeInterior[r][q]
            /\ AspectWritten => aspect[c[1]][c[2]] = aspectInterior[r][q]

\* A 4x4 grid whose interior cells differ, with its corners filled.
C8_Witness ==
    /\ AspectWritten
    /\ height = 4 /\ width = 4
    /\ slopeInterior[1][1] # slopeInterior[2][2]
    /\ aspectInterior[1][1] # aspectInterior[2][2]
    /\ slope[0][0] = slopeInterior[1][1]
    /\ slope[3][3] = slopeInterior[2][2]
    /\ aspect[3][0] = aspectInterior[2][1]
    /\ aspect[3][0] # FlatAspect

\* The ramp of the scenario: 1 m drop per cell from west to east, 1 m cells,
\* no smoothing.
EastRamp ==
    /\ elevation = Surface(height, width, -1, 0, <<>>)
    /\ cell_size_x_m = 1 /\ cell_size_y_m = 1
    /\ ~smoothing_enabled

\* C9: for an interior cell that is not flat the aspect is the bearing of
\* the downhill direction: 90 when the elevation falls only from west to
\* east, 180 only toward the south, 270 only toward the west, 0 only toward
\* the north; on the east ramp with 1 m drop per 1 m cell the slope is 100.
C9_CompassBearing ==
    /\ AspectWritten =>
           \A c \in InteriorCells :
               LET d == CentralDiff(elevation, c[1], c[2])
                   a == aspect[c[1]][c[2]]
               IN  ~IsFlat(slope[c[1]][c[2]], flat_threshold) =>
                       /\ (d[1] < 0 /\ d[2] = 0) => a = Deg(90)
                       /\ (d[1] = 0 /\ d[2] < 0) => a = Deg(180)
                       /\ (d[1] > 0 /\ d[2] = 0) => a = Deg(270)
                       /\ (d[1] = 0 /\ d[2] > 0) => a = 0
    /\ (SlopeWritten /\ EastRamp) =>
           \A c \in InteriorCells : slope[c[1]][c[2]] = 100

\* The east ramp: slope 100 and aspect 90 in an interior cell.
C9_Witness ==
    /\ AspectWritten
    /\ EastRamp
    /\ slope[1][1] = 100
    /\ aspect[1][1] = Deg(90)

\* C10: with smoothing enabled the elevation grid is smoothed exactly once
\* and calculate_aspect takes its differences on the grid calculate_slope
\* took its own on.
C10_SameSmoothedGrid ==
    (AspectWritten /\ smoothing_enabled) =>
        /\ smoothCount = 1
        /\ aspectElevation = slopeElevation

AspectStatsReturned == aspectStats.computed

\* Number of cells that classify_aspect put in one of the classes of K.
AspectClassCount(K) ==
    Cardinality({c \in Cells(height, width) : classifiedAspect[c[1]][c[2]] \in K})

\* C11: every percentage of calculate_slope_statistics and of
\* calculate_aspect_statistics has the number of cells of the grid, no-data
\* and flat cells included, as its denominator.
C11_TotalCellsDenominator ==
    /\ StatsReturned =>
           \A p \in {slopeStats.flatPercent, slopeStats.moderatePercent,
                     slopeStats.steepPercent, slopeStats.verySteepPercent,
                     slopeStats.unbuildablePercent} : p[2] = height * width
    /\ AspectStatsReturned =>
           \A p \in {aspectStats.flatPercent, aspectStats.northPercent,
                     aspectStats.northeastPercent, aspectStats.eastPercent,
                     aspectStats.southeastPercent, aspectStats.southPercent,
                     aspectStats.southwestPercent, aspectStats.westPercent,
                     aspectStats.northwestPercent, aspectStats.northFacingPercent,
                     aspectStats.southFacingPercent} : p[2] = height * width

\* C12: dominantDirection is an octant with the highest cell count among
\* N, NE, E, SE, S, SW, W, NW (Flat does not compete), and of the octants
\* that share the highest count it is the earliest in that order.
C12_DominantDirection ==
    AspectStatsReturned =>
        \E j \in 1..8 :
            /\ aspectStats.dominantDirection = Directions[j]
            /\ \A i \in 1..8 : AspectClassCount({i}) <= AspectClassCount({j})
            /\ \A i \in 1..(j - 1) : AspectClassCount({i}) < AspectClassCount({j})

\* One S cell then one NE cell: a tie, and NE, listed first, is dominant.
C12_Witness ==
    /\ AspectStatsReturned
    /\ width = 2
    /\ classifiedAspect[0][0] = 5
    /\ classifiedAspect[0][1] = 2
    /\ aspectStats.dominantDirection = "NE"

\* C13: a cell is north-facing exactly when its class is N, NE or NW and
\* south-facing exactly when its class is S, SE or SW, in the northFacing and
\* southFacing counts of the statistics and in the masks of
\* identify_facing_areas.
C13_FacingAggregates ==
    /\ AspectStatsReturned =>
           /\ aspectStats.northFacingPercent[1] = 100 * AspectClassCount({1, 2, 8})
           /\ aspectStats.southFacingPercent[1] = 100 * AspectClassCount({4, 5, 6})
    /\ north_facing_mask # NoRaster =>
           \A c \in Cells(height, width) :
               /\ north_facing_mask[c[1]][c[2]] = 1
                      <=> classifiedAspect[c[1]][c[2]] \in {1, 2, 8}
               /\ south_facing_mask[c[1]][c[2]] = 1
                      <=> classifiedAspect[c[1]][c[2]] \in {4, 5, 6}

AnglesInRange(aspects) ==
    \A i \in DOMAIN aspects : 0 <= aspects[i] /\ aspects[i] < Deg(360)

\* C14: for a non-empty list of angles in [0, 360) the circular mean m has
\* 0 <= m < 360, and the mean of {10, 350} is 0.
C14_CircularMeanRange ==
    (AspectStatsReturned /\ valid_aspects # <<>> /\ AnglesInRange(valid_aspects)) =>
        /\ aspectStats.circularMeanAspect # None
        /\ 0 <= aspectStats.circularMeanAspect[1]
        /\ aspectStats.circularMeanAspect[1] < Deg(360)
        /\ valid_aspects \in {<<Deg(10), Deg(350)>>, <<Deg(350), Deg(10)>>}
               => aspectStats.circularMeanAspect[1] = 0

Occurrences(seq, v) == Cardinality({i \in DOMAIN seq : seq[i] = v})

\* C15: the list given to the circular mean holds no cell counted as flat
\* and every other cell once, and circularMeanAspect is None exactly when no
\* cell is valid.
C15_ValidAspectsOnly ==
    AspectStatsReturned =>
        LET cells == FlatOrder(aspect, height, width)
            flat  == {i \in DOMAIN cells : cells[i] < 0}
        IN  /\ aspectStats.flatPercent[1] = 100 * Cardinality(flat)
            /\ \A i \in DOMAIN valid_aspects : valid_aspects[i] >= 0
            /\ \A i \in DOMAIN cells :
                   cells[i] >= 0 => Occurrences(valid_aspects, cells[i])
                                        = Occurrences(cells, cells[i])
            /\ Len(valid_aspects) = Len(cells) - Cardinality(flat)
            /\ aspectStats.circularMeanAspect = None
                   <=> Cardinality(flat) = Len(cells)

\* A flat cell and a cell at 10 degrees: only the second reaches the mean.
C15_Witness ==
    /\ AspectStatsReturned
    /\ aspect = RowRaster(<<FlatAspect, Deg(10)>>)
    /\ valid_aspects = <<Deg(10)>>
    /\ aspectStats.circularMeanAspect # None


\* sample_dem_along_line has returned its list.
SampleReturned ==
    \/ profPc \in {"calculate_grades", "calculate_profile_statistics", "done"}
    \/ profPc = "failed" /\ gradeCalls > 0

\* The 2x2 block of cells around the position <<lng, lat>> lies in the grid:
\* a position is inside the grid for the sampler when bilinear
\* interpolation has its four cells, which leaves out the last row and the
\* last column.
HasNeighbourhood(lng, lat) ==
    LET pixel == GeoToPixel(lng, lat, GeoTransform)
    IN  /\ 0 <= pixel[1]
        /\ pixel[1] < (ShapeWidth(data) - 1) * PixelUnit
        /\ 0 <= pixel[2]
        /\ pixel[2] < (ShapeHeight(data) - 1) * PixelUnit

LineInsideGrid ==
    \A i \in DOMAIN line_coords :
        HasNeighbourhood(line_coords[i][1], line_coords[i][2])

PointDistances == [i \in DOMAIN profile_points |-> profile_points[i].distance]

NonDecreasing(seq) ==
    \A i \in DOMAIN seq : i < Len(seq) => seq[i] <= seq[i + 1]

\* C16: for a polyline of length L inside the grid and a spacing s > 0,
\* sample_dem_along_line returns ceil(L/s)+1 samples, at the distances
\* 0, s, 2s, ... and a last one at exactly L; the distances are
\* non-decreasing and none exceeds L.
C16_SampleDistances ==
    (SampleReturned /\ Len(line_coords) >= 2 /\ LineInsideGrid) =>
        LET L == CalculateLineLength(line_coords)
            s == sample_interval
            n == Len(profile_points)
        IN  /\ n = CeilDiv(L, s) + 1
            /\ PointDistances[1] = 0
            /\ PointDistances[n] = L
            /\ \A i \in 1..(n - 1) : PointDistances[i] = (i - 1) * s
            /\ \A i \in 1..n : PointDistances[i] <= L
            /\ NonDecreasing(PointDistances)

\* Two points 1000 m apart sampled every 250 m.
C16_Witness ==
    /\ profPc = "done"
    /\ line_coords = <<<<0, 1000>>, <<1000, 1000>>>>
    /\ sample_interval = 250
    /\ PointDistances = <<0, 250, 500, 750, 1000>>

\* A call of calculate_grades on a non-empty list.
GradesCall == gradeCalls' = gradeCalls + 1 /\ profile_points # <<>>

\* C17: calculate_grades on a non-empty profile gives the first point grade
\* 0 and every later point 100 * (elevation change) / (distance change)
\* when the distance change is positive, 0 when it is zero; it leaves the
\* distances, elevations and coordinates alone, and a second call changes
\* nothing.
C17_GradesFormula ==
    [][GradesCall =>
        /\ Len(profile_points') = Len(profile_points)
        /\ \A i \in DOMAIN profile_points :
               /\ profile_points'[i].distance = profile_points[i].distance
               /\ profile_points'[i].elevation = profile_points[i].elevation
               /\ profile_points'[i].lat = profile_points[i].lat
               /\ profile_points'[i].lng = profile_points[i].lng
        /\ profile_points'[1].grade = 0
        /\ \A i \in 2..Len(profile_points) :
               LET run == profile_points[i].distance
                              - profile_points[i - 1].distance
                   rise == profile_points[i].elevation
                               - profile_points[i - 1].elevation
                   grade == profile_points'[i].grade
               IN  IF run > 0
                   THEN 2 * Abs(grade * run - 100 * rise) <= run
                   ELSE grade = 0
        /\ gradeCalls >= 1 => profile_points' = profile_points]_vars

\* calculate_grades has run twice on a profile with a level step at one
\* distance and a sloping segment.
C17_Witness ==
    /\ gradeCalls = 2
    /\ Len(profile_points) >= 3
    /\ \E i \in 2..Len(profile_points) :
           /\ profile_points[i].distance = profile_points[i - 1].distance
           /\ profile_points[i].elevation # profile_points[i - 1].elevation
           /\ profile_points[i].grade = 0
    /\ \E i \in 2..Len(profile_points) : profile_points[i].grade # 0

ProfileStatsReturned == profileStats.computed

\* The elevation changes between consecutive points.
Deltas ==
    [i \in 1..(Len(profile_points) - 1) |->
        profile_points[i + 1].elevation - profile_points[i].elevation]

\* C18: elevationGain is the sum of the positive elevation deltas and
\* elevationLoss the sum of the absolute values of the negative ones; both
\* are non-negative and their difference is netElevationChange, the last
\* elevation minus the first.
C18_GainLossNet ==
    ProfileStatsReturned =>
        /\ profileStats.elevationGain =
               SumSeq([i \in DOMAIN Deltas |->
                          IF Deltas[i] > 0 THEN Deltas[i] ELSE 0], 1)
        /\ profileStats.elevationLoss =
               SumSeq([i \in DOMAIN Deltas |->
                          IF Deltas[i] < 0 THEN -Deltas[i] ELSE 0], 1)
        /\ profileStats.elevationGain >= 0
        /\ profileStats.elevationLoss >= 0
        /\ profileStats.netElevationChange =
               profile_points[Len(profile_points)].elevation
                   - profile_points[1].elevation
        /\ profileStats.elevationGain - profileStats.elevationLoss =
               profileStats.netElevationChange

\* A profile that climbs and descends.
C18_Witness ==
    /\ ProfileStatsReturned
    /\ profileStats.elevationGain > 0
    /\ profileStats.elevationLoss > 0
    /\ profileStats.netElevationChange # 0

\* The segments of the profile whose grade exceeds the threshold, by index
\* of their first point, in order.
RECURSIVE ExcessiveFrom(_)
ExcessiveFrom(i) ==
    IF i >= Len(profile_points) THEN <<>>
    ELSE (IF Abs(profile_points[i + 1].grade) > max_grade_threshold
          THEN <<i>> ELSE <<>>) \o ExcessiveFrom(i + 1)

\* C19: excessiveGradeDistance is the sum of the lengths of exactly the
\* segments whose |grade| is strictly above the threshold, excessiveSegments
\* lists exactly those segments in distance order, the distance never
\* exceeds totalDistance, and excessiveGradePercent is 100 * distance /
\* totalDistance (0 when totalDistance is 0), within [0, 100].
C19_ExcessiveGrade ==
    ProfileStatsReturned =>
        LET over == ExcessiveFrom(1)
            length(i) == profile_points[i + 1].distance
                             - profile_points[i].distance
            listed == profileStats.excessiveSegments
            distance == profileStats.excessiveGradeDistance
            total == profileStats.totalDistance
            percent == profileStats.excessiveGradePercent
        IN  /\ distance = SumSeq([k \in DOMAIN over |-> length(over[k])], 1)
            /\ Len(listed) = Len(over)
            /\ \A k \in DOMAIN over :
                   /\ listed[k].start = profile_points[over[k]].distance
                   /\ listed[k].end = profile_points[over[k] + 1].distance
            /\ \A k \in DOMAIN listed :
                   k < Len(listed) => listed[k].end <= listed[k + 1].start
            /\ distance <= total
            /\ percent[2] > 0
            /\ IF total = 0 THEN percent[1] = 0
               ELSE percent[1] * total = 100 * distance * percent[2]
            /\ 0 <= percent[1]
            /\ percent[1] <= 100 * percent[2]

\* One segment above the threshold and one exactly at it.
C19_Witness ==
    /\ ProfileStatsReturned
    /\ Len(profileStats.excessiveSegments) = 1
    /\ \E i \in 2..Len(profile_points) :
           /\ Abs(profile_points[i].grade) = max_grade_threshold
           /\ profile_points[i].distance > profile_points[i - 1].distance
    /\ profileStats.excessiveGradeDistance > 0
    /\ profileStats.excessiveGradeDistance < profileStats.totalDistance

\* The 2x2 block of cells around a sample position lies in the grid.
SampleInGrid(try) == HasNeighbourhood(try.lng, try.lat)

Position(p) == <<p.distance, p.lng, p.lat>>

\* C20: a sample whose pixel position falls outside the grid is dropped and
\* raises nothing out of sample_dem_along_line; every other sample is
\* returned, in non-decreasing distance order.
C20_OutsideSampleDropped ==
    [][(profPc = "sample_dem_along_line" /\ line_coords # <<>>) =>
        LET L == CalculateLineLength(line_coords)
            n == CeilDiv(L, sample_interval) + 1
            inside == SelectSeq(attempts', SampleInGrid)
        IN  /\ profExc' = NoError
            /\ profPc' = "calculate_grades"
            /\ Len(attempts') = n
            /\ \A i \in 1..n :
                   attempts'[i].distance = Min2((i - 1) * sample_interval, L)
            /\ Len(profile_points') = Len(inside)
            /\ \A k \in DOMAIN inside :
                   Position(profile_points'[k]) = Position(inside[k])
            /\ \A k \in DOMAIN profile_points' :
                   k < Len(profile_points') =>
                       profile_points'[k].distance
                           <= profile_points'[k + 1].distance]_vars

\* A line that starts outside the grid and ends inside it: the first samples
\* were dropped and the later ones returned.
C20_Witness ==
    /\ profPc = "done"
    /\ attempts # <<>>
    /\ ~SampleInGrid(attempts[1])
    /\ SampleInGrid(attempts[Len(attempts)])
    /\ profile_points # <<>>
    /\ Len(profile_points) < Len(attempts)

\* The no-data value the grid declares; a grid that declares none is read
\* with -9999.
GridSentinel == IF nodata = None THEN NoData ELSE nodata[1]

\* The cell values of the 2x2 block around an in-grid sample position.
BlockAround(try) ==
    LET pixel == GeoToPixel(try.lng, try.lat, GeoTransform)
        x0 == FloorDiv(pixel[1], PixelUnit)
        y0 == FloorDiv(pixel[2], PixelUnit)
    IN  {data[y0][x0], data[y0][x0 + 1], data[y0 + 1][x0], data[y0 + 1][x0 + 1]}

\* C21: a sample with a no-data cell among its four cells takes the value of
\* the nearest cell, which lies in the grid, and no elevation of a profile
\* point (hence of the grades and statistics computed from the points) is
\* the grid's no-data value.
C21_NoDataFallback ==
    SampleReturned =>
        /\ \A i \in DOMAIN attempts :
               (SampleInGrid(attempts[i])
                    /\ GridSentinel \in BlockAround(attempts[i])) =>
                   LET pixel == GeoToPixel(attempts[i].lng, attempts[i].lat,
                                           GeoTransform)
                       ny == RoundHalfEven(pixel[2], PixelUnit)
                       nx == RoundHalfEven(pixel[1], PixelUnit)
                   IN  /\ ny \in Rows(ShapeHeight(data))
                       /\ nx \in Cols(ShapeWidth(data))
                       /\ attempts[i].error = NoError
                       /\ attempts[i].elevation = data[ny][nx] * ElevUnit
        /\ \A k \in DOMAIN profile_points :
               profile_points[k].elevation # GridSentinel * ElevUnit

\* C22: a profile request whose polyline has fewer than two points aborts
\* with a failure before any profile point is produced, any result is
\* uploaded or any ElevationProfile record is written.
C22_ShortLineFatal ==
    Len(line_coords) < 2 =>
        /\ profile_points = <<>>
        /\ profObjects = {}
        /\ profileRecords = 0
        /\ profPc \in {"off", "sample_dem_along_line", "calculate_grades",
                       "failed"}

HasZeroLengthSegment ==
    \E i \in DOMAIN line_coords :
        i < Len(line_coords) /\ line_coords[i] = line_coords[i + 1]

\* C23: a polyline with a zero-length segment makes profile sampling fail
\* with an error; no samples are returned.
C23_ZeroLengthSegmentFatal ==
    HasZeroLengthSegment =>
        /\ profile_points = <<>>
        /\ profPc \in {"sample_dem_along_line", "failed"}
        /\ profPc = "failed" => profExc # NoError

\* The progress values written to the job in this run.
ProgressWritten == {statusLog[i].progress : i \in DOMAIN statusLog}

\* C24: when the contour set fetched for a job is empty the handler marks
\* the job 'failed' with an error message and returns 500, and runs neither
\* the interpolation, the validation, the upload nor the record creation.
C24_EmptyContoursFail ==
    contours = 0 =>
        /\ demPc \in {"except", "idle"}
        /\ ProgressWritten \cap {70, 85, 95, 100} = {}
        /\ rmse = -1
        /\ ~uploadedRun
        /\ ~recordRun
        /\ demPc = "idle" =>
               /\ response = 500
               /\ job.status = "failed"
               /\ job.error.msg # ""
               /\ statusLog[Len(statusLog)].status = "failed"

\* A run that fetched no contour has ended.
C24_Witness ==
    /\ contours = 0
    /\ demPc = "idle"
    /\ response = 500
    /\ job.status = "failed"

\* The input errors of the handler: an empty contour set, an unknown
\* interpolation method, no valid validation sample.
InputErrors ==
    {ValueError("No contour data found for project"),
     ValueError("Unknown interpolation method"),
     ValueError("No valid elevation samples for validation")}

\* C25: a job that fails because the validation RMSE exceeds the threshold
\* records an error type that differs from the type recorded for every
\* input error.
C25_DistinctQualityFailure ==
    (job.status = "failed" /\ rmse # -1 /\ RmseExceeds(rmse)
         /\ job.error = exc) =>
        \A e \in InputErrors : job.error.type # e.type

\* The connected regions of the cells of a mask whose value is not zero.
NonZeroCells(mask, h, w) == {c \in Cells(h, w) : mask[c[1]][c[2]] # 0}

NonZeroRegions(mask, h, w) ==
    {Grow({c}, NonZeroCells(mask, h, w)) : c \in NonZeroCells(mask, h, w)}

\* A result holds one polygon per connected region of non-zero cells and
\* is None exactly when the mask has no non-zero cell.
OnePolygonPerRegion(result, mask, h, w) ==
    /\ result.none <=> NonZeroCells(mask, h, w) = {}
    /\ {f.cells : f \in result.features} = NonZeroRegions(mask, h, w)
    /\ Cardinality(result.features) = Cardinality(NonZeroRegions(mask, h, w))

\* C26: every polygon collection derived from a mask holds one polygon per
\* connected region of non-zero cells and none for the regions of value 0;
\* a mask without a non-zero cell gives None and a mask with one gives a
\* non-empty collection.
C26_PolygonsOfNonZeroRegions ==
    /\ north_geojson.computed =>
           OnePolygonPerRegion(north_geojson, north_facing_mask, height, width)
    /\ south_geojson.computed =>
           OnePolygonPerRegion(south_geojson, south_facing_mask, height, width)
    /\ unbuildable_geojson.computed =>
           OnePolygonPerRegion(unbuildable_geojson,
               UnbuildableMask(slope, height, width, max_buildable_slope),
               height, width)

\* C27: a run that follows a successful run of the same message leaves no
\* second DigitalElevationModel row.
C27_RerunIdempotent ==
    (\E i \in 1..Len(earlier) :
        earlier[i].response = 200 /\ earlier[i].method = method)
        => demRecords <= 1

Validated == valPc \in {"returned", "raised"}

\* The vertex lies inside the extent of the grid: not west of the origin
\* longitude, not north of the origin latitude, and not beyond the last
\* column or row.
InsideExtent(coord, array) ==
    LET gt == ValidationGeoTransform
    IN  /\ gt[1] <= coord[1]
        /\ coord[1] < gt[1] + Len(array[1]) * gt[2]
        /\ coord[2] <= gt[4]
        /\ coord[2] > gt[4] + Len(array) * gt[6]

\* C28: every vertex that contributes an error sample lies inside the grid
\* extent; a vertex west of the origin longitude or north of the origin
\* latitude contributes none.
C28_OutsideVertexNotCompared ==
    Validated =>
        \A k \in 1..Len(contributing) :
            InsideExtent(
                valContours[contributing[k][1]].coordinates[contributing[k][2] + 1],
                dem_array)

ProgressOrder == <<0, 20, 70, 85, 95>>

IsTerminal(w) == w.status \in {"completed", "failed"}

\* The status writes of the run so far: 'processing' with the progress
\* values of ProgressOrder in order, then at most one terminal write, which
\* is the last one.
StatusLogShape ==
    \A i \in 1..Len(statusLog) :
        LET w == statusLog[i]
        IN  \/ /\ w.status = "processing"
               /\ i <= Len(ProgressOrder)
               /\ w.progress = ProgressOrder[i]
               /\ \A j \in 1..(i - 1) :
                      /\ statusLog[j].status = "processing"
                      /\ statusLog[j].progress <= w.progress
            \/ /\ w.status = "completed"
               /\ i = Len(statusLog)
               /\ w.progress = 100
               /\ w.demId
               /\ uploadedRun /\ recordRun
               /\ \A j \in 1..(i - 1) : ~IsTerminal(statusLog[j])
            \/ /\ w.status = "failed"
               /\ i = Len(statusLog)
               /\ w.progress = 0
               /\ w.error.type # "" /\ w.error.msg # ""
               /\ \A j \in 1..(i - 1) : ~IsTerminal(statusLog[j])

TerminalWritten ==
    /\ Len(statusLog) > 0
    /\ IsTerminal(statusLog[Len(statusLog)])

\* C30: every run of the DEM handler writes 'processing' with progress taken
\* in order from 0, 20, 70, 85, 95 and then exactly one terminal status,
\* 'completed' with progress 100 and a DEM id after the upload and the record
\* creation in that order, or 'failed' with progress 0 and an error; nothing
\* is written after the terminal status, and a started run reaches it.
C30_StatusSequence ==
    /\ [](StatusLogShape /\ (recordRun => uploadedRun))
    /\ [](RunEnded => TerminalWritten)
    /\ [](TerminalWritten => demPc = "idle")
    /\ (demPc = "step1" ~> (RunEnded /\ TerminalWritten))

\* A run wrote the five progress values and then 'completed'.
C30_Witness ==
    /\ RunEnded
    /\ Len(statusLog) = 6
    /\ statusLog[5].progress = 95
    /\ statusLog[6].status = "completed"

=============================================================================
